---------------------------- MODULE Spec2Model ----------------------------
(***************************************************************************)
(* A model of repstack: the ingest pipeline (parse, resolve, normalize,    *)
(* score), the exercise resolver with its lazily loaded registry cache,    *)
(* and the metrics engine.                                                 *)
(*                                                                         *)
(* Representation.  Python str values are TLA+ strings, handled character  *)
(* by character with Len, SubSeq and \o.  An Optional value is a sequence: *)
(* None is <<>> and a present value v is <<v>>.  Floats that the code      *)
(* rounds to two decimals (confidence, scores, penalties) are integers in  *)
(* hundredths; weights are integers (whole pounds or kilograms).           *)
(* A raised exception is a result record whose field raised names it.      *)
(***************************************************************************)
EXTENDS Integers, Sequences, FiniteSets, TLC

VARIABLES
    fs,      \* the data files on disk: exercise_registry.json and aliases/*.json
    cache,   \* normalize.py module globals: _registry, _registry_by_display,
             \* _registry_by_alias, _source_packs_cache
    op,      \* the operation that ran last ("idle" before any)
    arg,     \* its input
    res,     \* its result
    prev     \* the result of the preceding call on the same input, if any

vars == <<fs, cache, op, arg, res, prev>>

None == <<>>
Some(v) == <<v>>
IsNone(o) == o = <<>>
Val(o) == o[1]

\* a value named once and used by the expression f: f(v)
Let(v, f(_)) == f(v)
Let2(a, b, f(_, _)) == f(a, b)
Let3(a, b, c, f(_, _, _)) == f(a, b, c)

(***************************************************************************)
(* Strings                                                                 *)
(***************************************************************************)
Uppers == "ABCDEFGHIJKLMNOPQRSTUVWXYZ"
Lowers == "abcdefghijklmnopqrstuvwxyz"
Digits == "0123456789"

Ch(s, i) == SubSeq(s, i, i)
Rest(s) == SubSeq(s, 2, Len(s))

CharsOf(chars) == {Ch(chars, i) : i \in 1..Len(chars)}
UpperChars == CharsOf(Uppers)
WordChars == CharsOf(Lowers) \cup CharsOf(Uppers) \cup CharsOf(Digits) \cup {"_"}
UpperToLower == [c \in UpperChars |-> Ch(Lowers, CHOOSE i \in 1..Len(Uppers) : Ch(Uppers, i) = c)]

\* str.lower() on one character
LowerChar(c) == IF c \in UpperChars THEN UpperToLower[c] ELSE c

RECURSIVE Lower(_)
Lower(s) == IF Len(s) = 0 THEN "" ELSE LowerChar(Ch(s, 1)) \o Lower(Rest(s))

IsSpace(c) == c = " "

RECURSIVE LStrip(_)
LStrip(s) == IF Len(s) > 0 /\ IsSpace(Ch(s, 1)) THEN LStrip(Rest(s)) ELSE s

RECURSIVE RStrip(_)
RStrip(s) ==
    IF Len(s) > 0 /\ IsSpace(Ch(s, Len(s)))
    THEN RStrip(SubSeq(s, 1, Len(s) - 1))
    ELSE s

\* str.strip()
Strip(s) == RStrip(LStrip(s))

\* the Python test  sub in s
Contains(sub, s) ==
    \E i \in 1..(Len(s) - Len(sub) + 1) : SubSeq(s, i, i + Len(sub) - 1) = sub

\* str.startswith
StartsWith(s, pre) == Len(pre) <= Len(s) /\ SubSeq(s, 1, Len(pre)) = pre

\* the characters of the model's dates and ids, in code point order
AsciiOrder == " !()+-./0123456789:" \o Uppers \o "_" \o Lowers
CharRank(c) == CHOOSE i \in 1..Len(AsciiOrder) : Ch(AsciiOrder, i) = c

\* a <= b on str
RECURSIVE StrLeq(_, _)
StrLeq(a, b) ==
    IF Len(a) = 0 THEN TRUE
    ELSE IF Len(b) = 0 THEN FALSE
    ELSE IF Ch(a, 1) = Ch(b, 1) THEN StrLeq(Rest(a), Rest(b))
    ELSE CharRank(Ch(a, 1)) < CharRank(Ch(b, 1))

\* sorted(S) for a set of strs
RECURSIVE SortStrs(_)
SortStrs(S) ==
    IF S = {} THEN <<>>
    ELSE Let(CHOOSE x \in S : \A y \in S : StrLeq(x, y), LAMBDA m : <<m>> \o SortStrs(S \ {m}))

\* \w of the re module, on the characters the model uses
IsWordChar(c) == c \in WordChars

\* re.sub(r"[^\w\s-]", "", s)
RECURSIVE DropPunct(_)
DropPunct(s) ==
    IF Len(s) = 0 THEN ""
    ELSE (IF IsWordChar(Ch(s, 1)) \/ IsSpace(Ch(s, 1)) \/ Ch(s, 1) = "-"
          THEN Ch(s, 1) ELSE "") \o DropPunct(Rest(s))

\* re.sub(r"[-\s]+", "_", s): every maximal run of hyphens and blanks becomes "_"
RECURSIVE CollapseSep(_, _)
CollapseSep(s, inRun) ==
    IF Len(s) = 0 THEN ""
    ELSE IF IsSpace(Ch(s, 1)) \/ Ch(s, 1) = "-"
         THEN (IF inRun THEN "" ELSE "_") \o CollapseSep(Rest(s), TRUE)
         ELSE Ch(s, 1) \o CollapseSep(Rest(s), FALSE)

slug_exercise(raw) ==
    Let(CollapseSep(DropPunct(Lower(Strip(raw))), FALSE),
        LAMBDA s : IF s = "" THEN "unknown" ELSE s)

(***************************************************************************)
(* Dictionaries are sequences of <<key, value>> pairs in insertion order.  *)
(***************************************************************************)
HasKey(d, k) == \E i \in 1..Len(d) : d[i][1] = k
Get(d, k) == d[CHOOSE i \in 1..Len(d) : d[i][1] = k][2]
Keys(d) == {d[i][1] : i \in 1..Len(d)}
\* d[k] = v
Put(d, k, v) ==
    IF HasKey(d, k)
    THEN [i \in 1..Len(d) |-> IF d[i][1] = k THEN <<k, v>> ELSE d[i]]
    ELSE Append(d, <<k, v>>)
\* d.setdefault(k, v)
SetDefault(d, k, v) == IF HasKey(d, k) THEN d ELSE Append(d, <<k, v>>)

\* sum(q)
RECURSIVE SumSeq(_)
SumSeq(q) == IF q = <<>> THEN 0 ELSE Head(q) + SumSeq(Tail(q))

(***************************************************************************)
(* normalize.py: the global alias table                                    *)
(***************************************************************************)
EXERCISE_ALIASES ==
    << <<"barbell bench press", "barbell_bench_press">>,
       <<"bench press", "barbell_bench_press">>,
       <<"bench", "barbell_bench_press">>,
       <<"back squat", "back_squat">>,
       <<"squat", "back_squat">>,
       <<"squats", "back_squat">>,
       <<"deadlift", "deadlift">>,
       <<"romanian deadlift", "romanian_deadlift">>,
       <<"rdl", "romanian_deadlift">>,
       <<"barbell row", "barbell_row">>,
       <<"seated row", "seated_row">>,
       <<"overhead press", "overhead_press">>,
       <<"ohp", "overhead_press">>,
       <<"lat pulldown", "lat_pulldown">>,
       <<"pull up", "pull_up">>,
       <<"pull ups", "pull_up">>,
       <<"pull-up", "pull_up">>,
       <<"pullups", "pull_up">>,
       <<"pullup", "pull_up">>,
       <<"chin-up", "chin_up">>,
       <<"chin up", "chin_up">>,
       <<"dumbbell curl", "dumbbell_curl">>,
       <<"tricep pushdown", "triceps_pushdown">>,
       <<"leg press", "leg_press">>,
       <<"leg curl", "leg_curl">>,
       <<"leg extension", "leg_extension">> >>

(***************************************************************************)
(* The data files.  A registry file is a list of entries; a missing file   *)
(* is None.  An alias pack maps an exporter string to an exercise id.      *)
(***************************************************************************)
Entry(eid, display, aliases) == [exercise_id |-> eid, display |-> display, aliases |-> aliases]

SampleRegistry ==
    << Entry("barbell_bench_press", "Barbell Bench Press", <<"bench", "flat bench">>),
       Entry("incline_barbell_bench_press", "Incline Barbell Bench Press", <<"Incline Bench ", "barbell bench press">>),
       Entry("goblet_squat", "Goblet Squat", <<"goblet", "incline bench">>),
       Entry("pull_up", "Pull Up", <<"pull ups", "Hip Thrust">>),
       Entry("hip_thrust", "Hip Thrust", <<>>) >>

RegistryFiles == {None, Some(SampleRegistry)}

SamplePacks ==
    << <<"hevy", << <<"Pull Ups", "pull_up">>,
                    <<" Bench Press (Barbell) ", "barbell_bench_press">>,
                    <<"squat", "hack_squat">> >> >> >>

\* the source names a caller may give; only the first has a pack file
Sources == {"hevy", "strong"}

EmptyCache == [registry |-> None, by_display |-> <<>>, by_alias |-> <<>>, packs |-> <<>>]

\* _load_registry: the for-loop body for one alias of one entry
AddAlias(c, entry, a) ==
    Let(Lower(Strip(a)), LAMBDA key :
        IF a # "" /\ ~HasKey(c.by_display, key)
        THEN [c EXCEPT !.by_alias = SetDefault(c.by_alias, key, entry)]
        ELSE c)

RECURSIVE AddAliases(_, _, _)
AddAliases(c, entry, as) ==
    IF as = <<>> THEN c ELSE AddAliases(AddAlias(c, entry, Head(as)), entry, Tail(as))

\* _load_registry: the for-loop body for one entry
AddEntry(c, entry) ==
    LET c1 == IF entry.display # ""
              THEN [c EXCEPT !.by_display = Put(c.by_display, Lower(Strip(entry.display)), entry)]
              ELSE c
    IN  AddAliases(c1, entry, entry.aliases)

RECURSIVE AddEntries(_, _)
AddEntries(c, entries) ==
    IF entries = <<>> THEN c ELSE AddEntries(AddEntry(c, Head(entries)), Tail(entries))

\* _load_registry(): the cache after the call
load_registry(c, files) ==
    IF ~IsNone(c.registry) THEN c
    ELSE IF IsNone(files.registry) THEN [c EXCEPT !.registry = Some(<<>>)]
    ELSE AddEntries([c EXCEPT !.registry = files.registry], Val(files.registry))

RECURSIVE LowerKeys(_)
LowerKeys(d) ==
    IF d = <<>> THEN <<>>
    ELSE Put(LowerKeys(SubSeq(d, 1, Len(d) - 1)), Lower(Strip(d[Len(d)][1])), d[Len(d)][2])

\* _load_source_pack(source): <<the pack returned, the cache after the call>>
load_source_pack(c, files, source) ==
    Let(Lower(Strip(source)), LAMBDA key :
        IF key = "" \/ HasKey(c.packs, key)
        THEN <<IF HasKey(c.packs, key) THEN Get(c.packs, key) ELSE <<>>, c>>
        ELSE IF ~HasKey(files.packs, key)
        THEN << <<>>, [c EXCEPT !.packs = Put(c.packs, key, <<>>)] >>
        ELSE Let(LowerKeys(Get(files.packs, key)), LAMBDA out :
                 <<out, [c EXCEPT !.packs = Put(c.packs, key, out)]>>))

Resolution(eid, display, strategy, score) ==
    [exercise_id |-> eid, display |-> display, strategy |-> strategy, score |-> score]

\* the registry entry with a given id, as the loop of step 1 finds it
EntryWithId(reg, eid) == reg[CHOOSE i \in 1..Len(reg) :
                               reg[i].exercise_id = eid /\ \A j \in 1..(i - 1) : reg[j].exercise_id # eid]

\* a resolver that also accepts a known name contained in the raw name
resolve_substring(c, files, raw, source) ==
    LET key_lower == Lower(Strip(raw))
        hits == {i \in 1..Len(EXERCISE_ALIASES) : Contains(EXERCISE_ALIASES[i][1], key_lower)}
    IN  IF hits # {}
        THEN [r |-> Resolution(EXERCISE_ALIASES[CHOOSE i \in hits : TRUE][2], Strip(raw), "global_alias", 95),
              cache |-> c]
        ELSE [r |-> Resolution("unmapped:" \o slug_exercise(raw), Strip(raw), "unmapped", 0),
              cache |-> c]

\* resolve_exercise(raw, source): the tuple returned and the cache after the call
\* step 1 of resolve_exercise: the name is in the source's alias pack
resolve_in_pack(c2, eid, display_orig) ==
    Let(Val(c2.registry), LAMBDA reg :
        [r |-> IF \E i \in 1..Len(reg) : reg[i].exercise_id = eid
               THEN Resolution(eid, EntryWithId(reg, eid).display, "source_pack", 100)
               ELSE Resolution(eid, display_orig, "source_pack", 100),
         cache |-> c2])

\* steps 3 to 5 of resolve_exercise, on the cache with the registry loaded
resolve_in_registry(c2, raw, key_lower, display_orig) ==
    IF HasKey(c2.by_display, key_lower)
    THEN Let(Get(c2.by_display, key_lower), LAMBDA ent :
             [r |-> Resolution(ent.exercise_id, ent.display, "registry_display", 90), cache |-> c2])
    ELSE IF HasKey(c2.by_alias, key_lower)
    THEN Let(Get(c2.by_alias, key_lower), LAMBDA ent :
             [r |-> Resolution(ent.exercise_id, ent.display, "registry_alias", 85), cache |-> c2])
    ELSE [r |-> Resolution("unmapped:" \o slug_exercise(raw), display_orig, "unmapped", 0),
          cache |-> c2]

\* resolve_exercise after the source pack is loaded: lp is <<pack, cache>>
resolve_with_pack(lp, files, raw, source, key, key_lower) ==
    IF ~IsNone(source) /\ Val(source) # "" /\ HasKey(lp[1], key_lower)
    THEN resolve_in_pack(load_registry(lp[2], files), Get(lp[1], key_lower), key)
    ELSE IF HasKey(EXERCISE_ALIASES, key_lower)
    THEN [r |-> Resolution(Get(EXERCISE_ALIASES, key_lower), key, "global_alias", 95),
          cache |-> lp[2]]
    ELSE resolve_in_registry(load_registry(lp[2], files), raw, key_lower, key)

resolve_exercise(c, files, raw, source) ==
    Let(Strip(raw), LAMBDA key :
        resolve_with_pack(IF ~IsNone(source) /\ Val(source) # ""
                          THEN load_source_pack(c, files, Val(source))
                          ELSE << <<>>, c >>,
                          files, raw, source, key, Lower(key)))

(***************************************************************************)
(* Loosely typed values of the parsers' set dicts and of decoded JSON: a   *)
(* key may be absent, or hold None, a number or a string.                  *)
(***************************************************************************)
Absent == <<"absent">>
Null == <<"null">>
Num(n) == <<"num", n>>
Str(s) == <<"str", s>>
IsNum(v) == v[1] = "num"
IsStr(v) == v[1] = "str"
\* the value is None, whether stored or returned by dict.get for a missing key
IsNull(v) == v[1] = "null" \/ v[1] = "absent"
\* Python truthiness
Truthy(v) == (IsNum(v) /\ v[2] # 0) \/ (IsStr(v) /\ v[2] # "")
\* a or b
PyOr(a, b) == IF Truthy(a) THEN a ELSE b
\* d.get(k, default)
GetOr(v, default) == IF v = Absent THEN default ELSE v

Ok(v) == [ok |-> TRUE, v |-> v]
Raise(exc) == [ok |-> FALSE, exc |-> exc]
\* the rest of a computation, f, runs on the value of r unless r raised
Bind(r, f(_)) == IF r.ok THEN f(r.v) ELSE r

DigitChars == CharsOf(Digits)
DigitVal(c) == (CHOOSE i \in 1..Len(Digits) : Ch(Digits, i) = c) - 1
AllDigits(s) == Len(s) > 0 /\ \A i \in 1..Len(s) : Ch(s, i) \in DigitChars

RECURSIVE DigitsValue(_)
DigitsValue(s) ==
    IF Len(s) = 0 THEN 0
    ELSE 10 * DigitsValue(SubSeq(s, 1, Len(s) - 1)) + DigitVal(Ch(s, Len(s)))

\* float(s) for a str: blanks around, an optional sign, digits.  (The model's
\* inputs hold whole numbers only.)  None when Python raises ValueError.
ParseSigned(t, signed) ==
    Let(IF signed THEN Rest(t) ELSE t, LAMBDA body :
        IF AllDigits(body)
        THEN Some(IF signed /\ Ch(t, 1) = "-" THEN 0 - DigitsValue(body) ELSE DigitsValue(body))
        ELSE None)

ParseNum(s) ==
    Let(Strip(s), LAMBDA t : ParseSigned(t, Len(t) > 0 /\ Ch(t, 1) \in {"+", "-"}))

\* float(v) and int(v) on a loosely typed value
ToNum(v) ==
    IF IsNum(v) THEN Ok(v[2])
    ELSE IF IsStr(v)
    THEN Let(ParseNum(v[2]), LAMBDA n : IF IsNone(n) THEN Raise("ValueError") ELSE Ok(Val(n)))
    ELSE Raise("TypeError")

(***************************************************************************)
(* A raw set dict, as the parsers build it                                 *)
(***************************************************************************)
EmptySet ==
    [weight |-> Absent, reps |-> Absent, unit |-> Absent, load_type |-> Absent,
     added_weight |-> Absent, added_weight_unit |-> Absent, added_load |-> Absent,
     set_type |-> Absent, rpe |-> Absent]

(***************************************************************************)
(* ingest.py: parse_csv.  The content is given as csv.DictReader sees it:  *)
(* the header's field names and, per data line, the cells in column order  *)
(* (a line shorter than the header leaves its last columns None).  Field   *)
(* names are distinct.                                                     *)
(***************************************************************************)
ColKey(csv, i) == Lower(Strip(csv.fieldnames[i]))
Cols(csv) == 1..Len(csv.fieldnames)

\* col_map.get(name): the column whose normalized header is name, or None
ColGet(csv, name) ==
    IF \E i \in Cols(csv) : ColKey(csv, i) = name /\ csv.fieldnames[i] # ""
    THEN Some(CHOOSE i \in Cols(csv) : ColKey(csv, i) = name)
    ELSE None

\* next((col_map[k] for k in col_map if sub in k), None)
ColContaining(csv, sub) ==
    IF \E i \in Cols(csv) : Contains(sub, ColKey(csv, i))
    THEN Some(CHOOSE i \in Cols(csv) :
                 /\ Contains(sub, ColKey(csv, i))
                 /\ \A j \in 1..(i - 1) : ~Contains(sub, ColKey(csv, j)))
    ELSE None

\* a or b or ... on Optional columns
FirstSome(opts) ==
    IF \E i \in 1..Len(opts) : ~IsNone(opts[i])
    THEN opts[CHOOSE i \in 1..Len(opts) : ~IsNone(opts[i]) /\ \A j \in 1..(i - 1) : IsNone(opts[j])]
    ELSE None

ex_col(csv) == FirstSome(<<ColGet(csv, "exercise"), ColGet(csv, "exercise name"), ColContaining(csv, "exercise")>>)
weight_col(csv) == FirstSome(<<ColGet(csv, "weight"), ColContaining(csv, "weight")>>)
reps_col(csv) == FirstSome(<<ColGet(csv, "reps"), ColGet(csv, "rep"), ColContaining(csv, "rep")>>)
unit_col(csv) == FirstSome(<<ColGet(csv, "unit"), ColGet(csv, "units")>>)
rpe_col(csv) == ColGet(csv, "rpe")
set_type_col(csv) == FirstSome(<<ColGet(csv, "set_type"), ColGet(csv, "set type")>>)
date_col(csv) == FirstSome(<<ColGet(csv, "date"), ColGet(csv, "workout date"), ColContaining(csv, "date")>>)

\* raw.get(col): the cell of a column, None when the line is too short
Cell(row, col) == IF Val(col) <= Len(row) THEN Some(row[Val(col)]) ELSE None

\* _parse_weight(val): <<weight_or_none, load_type, added_weight_or_none>>
parse_weight(cell) ==
    IF IsNone(cell) \/ cell = Some("") THEN <<Some(0), "weighted", None>>
    ELSE Let(Strip(Val(cell)), LAMBDA v :
             IF Lower(v) \in {"bodyweight", "bw", "-"}
             THEN <<None, "bodyweight", None>>
             ELSE IF StartsWith(v, "+")
             THEN Let(Strip(Rest(v)), LAMBDA rest :
                  Let(IF rest = "" THEN Some(0) ELSE ParseNum(rest), LAMBDA added :
                      IF IsNone(added) THEN <<None, "weighted", None>>
                      ELSE <<None, "bodyweight_plus", added>>))
             ELSE <<IF v = "" THEN Some(0) ELSE ParseNum(v), "weighted", None>>)

\* the columns parse_csv looks up once, before the loop over rows
csv_cols(csv) ==
    [ex |-> ex_col(csv), weight |-> weight_col(csv), reps |-> reps_col(csv),
     unit |-> unit_col(csv), rpe |-> rpe_col(csv), set_type |-> set_type_col(csv),
     date |-> date_col(csv)]

\* col and raw.get(col): the column exists and its cell is neither None nor ""
OptCellTruthy(row, col) ==
    ~IsNone(col) /\ ~IsNone(Cell(row, col)) /\ Val(Cell(row, col)) # ""

\* the stripped, lowered text of a truthy cell, "" otherwise
CellLower(row, col) ==
    IF OptCellTruthy(row, col) THEN Lower(Strip(Val(Cell(row, col)))) ELSE ""

\* the unit given to a bodyweight_plus row
added_unit_of(cols, row) ==
    Let(CellLower(row, cols.unit), LAMBDA u :
        IF u # "" /\ u \notin {"bodyweight", "bw", "-"}
        THEN (IF u \in {"lb", "lbs", "pound", "pounds"} THEN "lb" ELSE "kg")
        ELSE "lb")

\* the set dict of an accepted row
csv_set_dict(cols, row, reps, pw) ==
    Let([EmptySet EXCEPT !.reps = Num(reps), !.load_type = Str(pw[2]),
                         !.weight = IF pw[2] = "weighted" THEN Num(Val(pw[1])) ELSE Null],
        LAMBDA s0 :
    Let(IF pw[2] = "bodyweight_plus" /\ ~IsNone(pw[3])
        THEN [s0 EXCEPT !.added_weight = Num(Val(pw[3])),
                        !.added_weight_unit = Str(added_unit_of(cols, row))]
        ELSE s0,
        LAMBDA s1 :
    Let2(CellLower(row, cols.unit),
         IF OptCellTruthy(row, cols.rpe) THEN ParseNum(Val(Cell(row, cols.rpe))) ELSE None,
         LAMBDA u, rpe :
    Let(IF pw[2] = "weighted" /\ u # "" /\ u \notin {"bodyweight", "bw", "-"}
        THEN [s1 EXCEPT !.unit = Str(u), !.rpe = IF IsNone(rpe) THEN @ ELSE Num(Val(rpe))]
        ELSE [s1 EXCEPT !.rpe = IF IsNone(rpe) THEN @ ELSE Num(Val(rpe))],
        LAMBDA s3 :
        IF OptCellTruthy(row, cols.set_type)
        THEN [s3 EXCEPT !.set_type = Str(CellLower(row, cols.set_type))]
        ELSE s3))))

\* the row's tuple once its exercise, reps and weight are read
csv_row_of(cols, row, ex, reps, pw) ==
    IF ex = "" THEN [k |-> "skip"]
    ELSE IF IsNone(reps) THEN [k |-> "skip"]
    ELSE IF IsNone(pw[1]) /\ pw[2] = "weighted" THEN [k |-> "skip"]
    ELSE IF ~IsNone(cols.date) /\ IsNone(Cell(row, cols.date))
    THEN [k |-> "raise", exc |-> "AttributeError"]
    ELSE [k |-> "row",
          date |-> IF IsNone(cols.date) THEN None
                   ELSE Let(Strip(Val(Cell(row, cols.date))),
                            LAMBDA d : IF d # "" THEN Some(d) ELSE None),
          ex |-> ex,
          set |-> csv_set_dict(cols, row, Val(reps), pw)]

\* the body of the loop over rows: the row is skipped, raises, or gives a tuple
csv_row(cols, row) ==
    Let2(Cell(row, cols.ex), Cell(row, cols.reps), LAMBDA exc, repsCell :
         csv_row_of(cols, row,
                    IF IsNone(exc) THEN "" ELSE Strip(Val(exc)),
                    IF IsNone(repsCell) THEN None ELSE ParseNum(Val(repsCell)),
                    parse_weight(Cell(row, cols.weight))))

\* one row's tuple put in front of the tuples of the rows after it
csv_row_cons(r, rest) ==
    IF r.k = "raise" THEN Raise(r.exc)
    ELSE IF ~rest.ok THEN rest
    ELSE IF r.k = "skip" THEN rest
    ELSE Ok(<<r>> \o rest.v)

RECURSIVE csv_row_tuples(_, _)
csv_row_tuples(cols, rows) ==
    IF rows = <<>> THEN Ok(<<>>)
    ELSE csv_row_cons(csv_row(cols, Head(rows)), csv_row_tuples(cols, Tail(rows)))

\* blocks that take a set into the first block of its name, wherever it stands
AddToBlocksByName(blocks, ex, set) ==
    IF \E b \in 1..Len(blocks) : blocks[b][1] = ex
    THEN Let(CHOOSE b \in 1..Len(blocks) : blocks[b][1] = ex /\ \A c \in 1..(b - 1) : blocks[c][1] # ex,
             LAMBDA b : [blocks EXCEPT ![b] = <<ex, Append(blocks[b][2], set)>>])
    ELSE Append(blocks, <<ex, <<set>>>>)

\* append a set to the exercise blocks: to the last block when it has the same name
AddToBlocks(blocks, ex, set) ==
    IF blocks # <<>> /\ blocks[Len(blocks)][1] = ex
    THEN [blocks EXCEPT ![Len(blocks)] = <<ex, Append(blocks[Len(blocks)][2], set)>>]
    ELSE Append(blocks, <<ex, <<set>>>>)

\* the date-major grouping: by_date, a dict from date string to blocks
RECURSIVE GroupByDate(_, _)
GroupByDate(by_date, tuples) ==
    IF tuples = <<>> THEN by_date
    ELSE Let2(Head(tuples), IF IsNone(Head(tuples).date) THEN "" ELSE Val(Head(tuples).date),
              LAMBDA t, key :
              GroupByDate(Put(by_date, key,
                              AddToBlocks(IF HasKey(by_date, key) THEN Get(by_date, key) ELSE <<>>,
                                          t.ex, t.set)),
                          Tail(tuples)))

RECURSIVE GroupBlocks(_, _)
GroupBlocks(blocks, tuples) ==
    IF tuples = <<>> THEN blocks
    ELSE GroupBlocks(AddToBlocks(blocks, Head(tuples).ex, Head(tuples).set), Tail(tuples))

\* parse_csv(content): the raw sessions <<date or None, blocks>>, or the exception raised
\* the sessions of the date-major grouping, in the order the dates first appear
csv_dated_sessions(by_date) ==
    Let(SelectSeq(by_date, LAMBDA e : e[1] # ""), LAMBDA dated :
        [i \in 1..Len(dated) |-> <<Some(dated[i][1]), dated[i][2]>>])

parse_csv(csv) ==
    IF csv.fieldnames = <<>> THEN Ok(<<>>)
    ELSE Let(csv_cols(csv), LAMBDA cols :
         IF IsNone(cols.ex) \/ IsNone(cols.weight) \/ IsNone(cols.reps) THEN Ok(<<>>)
         ELSE Bind(csv_row_tuples(cols, csv.rows), LAMBDA rows :
              IF rows = <<>> THEN Ok(<<>>)
              ELSE IF ~IsNone(cols.date)
              THEN Ok(csv_dated_sessions(GroupByDate(<<>>, rows)))
              ELSE Ok(<< <<None, GroupBlocks(<<>>, rows)>> >>)))

(***************************************************************************)
(* normalize.py: dates and units                                           *)
(***************************************************************************)
RECURSIVE NumToStr(_)
NumToStr(n) == IF n < 10 THEN Ch(Digits, n + 1) ELSE NumToStr(n \div 10) \o Ch(Digits, (n % 10) + 1)

\* "%02d" and "%04d"
Pad2(n) == IF n < 10 THEN "0" \o NumToStr(n) ELSE NumToStr(n)
Pad4(n) == IF n < 10 THEN "000" \o NumToStr(n)
           ELSE IF n < 100 THEN "00" \o NumToStr(n)
           ELSE IF n < 1000 THEN "0" \o NumToStr(n)
           ELSE NumToStr(n)

\* re.match(r"^\d{4}-\d{2}-\d{2}$", s)
IsIsoShaped(s) ==
    /\ Len(s) = 10
    /\ \A i \in {1, 2, 3, 4, 6, 7, 9, 10} : Ch(s, i) \in DigitChars
    /\ Ch(s, 5) = "-"
    /\ Ch(s, 8) = "-"

IsLeap(y) == (y % 4 = 0 /\ y % 100 # 0) \/ y % 400 = 0
DaysInMonth(y, m) ==
    IF m = 2 THEN (IF IsLeap(y) THEN 29 ELSE 28)
    ELSE IF m \in {4, 6, 9, 11} THEN 30 ELSE 31

\* the positions of the separator in s
SepPositions(s, sep) == {i \in 1..Len(s) : Ch(s, i) = sep}

\* the text of the field called name, of the three fields f read in the given order
DateField(f, order, name) == f[CHOOSE i \in 1..3 : order[i] = name]

\* the date of three numeric fields: ymd holds the texts of year, month and day
DateOfFields(f, ymd) ==
    IF /\ \A i \in 1..3 : AllDigits(f[i])
       /\ Len(ymd[1]) = 4
       /\ Len(ymd[2]) \in {1, 2}
       /\ Len(ymd[3]) \in {1, 2}
    THEN Let(<<DigitsValue(ymd[1]), DigitsValue(ymd[2]), DigitsValue(ymd[3])>>, LAMBDA d :
             IF d[1] >= 1 /\ d[2] \in 1..12 /\ d[3] >= 1 /\ d[3] <= DaysInMonth(d[1], d[2])
             THEN Some(d)
             ELSE None)
    ELSE None

\* datetime.strptime(s, fmt) for a format of three numeric fields joined by sep;
\* order names the fields, e.g. <<"m", "d", "Y">>.  None when strptime raises.
TryFormat(s, sep, order) ==
    Let(SepPositions(s, sep), LAMBDA ps :
        IF Cardinality(ps) # 2 THEN None
        ELSE Let2(CHOOSE i \in ps : \A j \in ps : i <= j,
                  CHOOSE i \in ps : \A j \in ps : j <= i,
                  LAMBDA p1, p2 :
             Let(<<SubSeq(s, 1, p1 - 1), SubSeq(s, p1 + 1, p2 - 1), SubSeq(s, p2 + 1, Len(s))>>,
                 LAMBDA f :
                 DateOfFields(f, <<DateField(f, order, "Y"), DateField(f, order, "m"),
                                   DateField(f, order, "d")>>))))

\* the formats of normalize_date, in the order tried
DateFormats ==
    << <<"-", <<"Y", "m", "d">>>>,
       <<"/", <<"m", "d", "Y">>>>,
       <<"/", <<"d", "m", "Y">>>>,
       <<"-", <<"m", "d", "Y">>>>,
       <<"-", <<"d", "m", "Y">>>> >>

\* strftime("%Y-%m-%d")
FormatIso(ymd) == Pad4(ymd[1]) \o "-" \o Pad2(ymd[2]) \o "-" \o Pad2(ymd[3])

\* normalize_date(value, hint), value a str; the result and hint are Optional strs
normalize_date(value, hint) ==
    Let(Strip(value), LAMBDA s :
        IF value = "" \/ s = "" THEN hint
        ELSE IF IsIsoShaped(s) THEN Some(s)
        ELSE Let(FirstSome([i \in 1..Len(DateFormats) |->
                               TryFormat(s, DateFormats[i][1], DateFormats[i][2])]),
                 LAMBDA hit : IF IsNone(hit) THEN hint ELSE Some(FormatIso(Val(hit)))))

\* normalize_unit(unit, default), unit a loosely typed value
normalize_unit(unit, default) ==
    Let(IF Truthy(unit) THEN Lower(Strip(unit[2])) ELSE "", LAMBDA u :
        IF u \in {"lb", "lbs", "pound", "pounds"} THEN "lb"
        ELSE IF u \in {"kg", "kilo", "kilogram", "kilograms"} THEN "kg"
        ELSE default)

(***************************************************************************)
(* models.py: SetRecord and its validator                                  *)
(***************************************************************************)
LoadTypes == {"weighted", "bodyweight", "bodyweight_plus", "assisted"}
SetTypes == {"warmup", "working", "top", "backoff"}

\* _check_load_type_fields: the error raised, or None
check_load_type_fields(rec) ==
    IF rec.load_type = "weighted"
    THEN (IF IsNone(rec.weight) \/ IsNone(rec.unit) THEN Some("ValidationError") ELSE None)
    ELSE IF rec.load_type = "bodyweight"
    THEN (IF ~IsNone(rec.weight) THEN Some("ValidationError") ELSE None)
    ELSE IF rec.load_type = "bodyweight_plus"
    THEN (IF ~IsNone(rec.weight) \/ IsNone(rec.added_load) THEN Some("ValidationError") ELSE None)
    ELSE IF rec.load_type = "assisted"
    THEN (IF ~IsNone(rec.weight) THEN Some("ValidationError") ELSE None)
    ELSE None

\* SetRecord(...): the record, or the validation error
SetRecord(set_index, weight, unit, reps, load_type, added_load, rpe, set_type) ==
    Let([set_index |-> set_index, weight |-> weight, unit |-> unit, reps |-> reps,
         load_type |-> load_type, added_load |-> added_load, rpe |-> rpe,
         set_type |-> set_type],
        LAMBDA rec :
        Let(check_load_type_fields(rec), LAMBDA err :
            IF IsNone(err) THEN Ok(rec) ELSE Raise(Val(err))))

(***************************************************************************)
(* normalize.py: normalize_set, normalize_exercise, normalize_session      *)
(***************************************************************************)
\* an added_load dict of a raw set: <<"dict", value, unit>>
IsDict(v) == v[1] = "dict"

\* the load_type a raw set is treated as; unknown values fall back to weighted
set_load_type(raw) ==
    Let(IF Truthy(raw.load_type) THEN Lower(Strip(raw.load_type[2])) ELSE "weighted",
        LAMBDA lt : IF lt \in LoadTypes THEN lt ELSE "weighted")

\* None if v is None else float(v)
OptNum(v) ==
    IF IsNull(v) THEN Ok(None)
    ELSE Bind(ToNum(v), LAMBDA n : Ok(Some(n)))

\* weight = None if w is None else round(float(w), 2)
normalize_weight(w) == OptNum(w)

\* the SetRecord of a raw set whose reps and rpe are read
normalize_set_loaded(raw, set_index, default_unit, load_type, reps, rpe, set_type) ==
    IF load_type = "bodyweight"
    THEN SetRecord(set_index, None, None, reps, "bodyweight", None, rpe, set_type)
    ELSE IF load_type = "bodyweight_plus"
    THEN IF IsDict(raw.added_load)
         THEN Bind(ToNum(GetOr(raw.added_load[2], Num(0))), LAMBDA value :
                   SetRecord(set_index, None, None, reps, "bodyweight_plus",
                             Some([value |-> value,
                                   unit |-> normalize_unit(raw.added_load[3], default_unit)]),
                             rpe, set_type))
         ELSE Bind(IF IsNull(raw.added_weight) THEN Ok(0) ELSE ToNum(raw.added_weight),
                   LAMBDA added :
                   SetRecord(set_index, None, None, reps, "bodyweight_plus",
                             Some([value |-> added,
                                   unit |-> normalize_unit(PyOr(raw.added_weight_unit, raw.unit),
                                                           default_unit)]),
                             rpe, set_type))
    ELSE Bind(normalize_weight(GetOr(raw.weight, Num(0))), LAMBDA weight :
              SetRecord(set_index, weight, Some(normalize_unit(raw.unit, default_unit)),
                        reps, "weighted", None, rpe, set_type))

\* normalize_set(raw, set_index, default_unit): Ok(SetRecord) or the exception
normalize_set(raw, set_index, default_unit) ==
    IF Truthy(raw.load_type) /\ ~IsStr(raw.load_type) THEN Raise("AttributeError")
    ELSE Bind(ToNum(GetOr(raw.reps, Num(0))), LAMBDA reps :
         Bind(OptNum(IF Truthy(raw.rpe) THEN raw.rpe ELSE Null), LAMBDA rpe :
              normalize_set_loaded(raw, set_index, default_unit, set_load_type(raw), reps, rpe,
                                   IF Truthy(raw.set_type) /\ IsStr(raw.set_type)
                                      /\ raw.set_type[2] \in SetTypes
                                   THEN Some(raw.set_type[2]) ELSE None)))

\* the list comprehension over the raw sets: the SetRecords, or the first exception
RECURSIVE normalize_sets(_, _, _)
normalize_sets(raw_sets, first_index, default_unit) ==
    IF raw_sets = <<>> THEN Ok(<<>>)
    ELSE Bind(normalize_set(Head(raw_sets), first_index, default_unit), LAMBDA h :
         Bind(normalize_sets(Tail(raw_sets), first_index + 1, default_unit), LAMBDA t :
              Ok(<<h>> \o t)))

\* normalize_exercise: Ok([rec, cache]) or the exception, with the cache as the
\* resolver left it
normalize_exercise(c, files, raw_name, raw_sets, default_unit, source) ==
    Let2(resolve_exercise(c, files, raw_name, source), normalize_sets(raw_sets, 1, default_unit),
         LAMBDA rr, sets :
         IF ~sets.ok THEN [ok |-> FALSE, exc |-> sets.exc, cache |-> rr.cache]
         ELSE Ok([rec |-> [exercise_raw |-> raw_name,
                           exercise_id |-> rr.r.exercise_id,
                           exercise_display |-> rr.r.display,
                           mapping |-> [strategy |-> rr.r.strategy, score |-> rr.r.score],
                           sets |-> sets.v],
                  cache |-> rr.cache]))

RECURSIVE normalize_exercises(_, _, _, _, _)
normalize_exercises(c, files, raw_exercises, default_unit, source) ==
    IF raw_exercises = <<>> THEN Ok([recs |-> <<>>, cache |-> c])
    ELSE Bind(normalize_exercise(c, files, Head(raw_exercises)[1], Head(raw_exercises)[2],
                                 default_unit, source),
              LAMBDA h :
         Bind(normalize_exercises(h.cache, files, Tail(raw_exercises), default_unit, source),
              LAMBDA t :
              Ok([recs |-> <<h.rec>> \o t.recs, cache |-> t.cache])))

\* normalize_session: Ok([rec, cache]) or the exception
normalize_session(c, files, session_id, date, raw_exercises, default_unit, source) ==
    Bind(normalize_exercises(c, files, raw_exercises, default_unit, source), LAMBDA exs :
         Ok([rec |-> [session_id |-> session_id, date |-> date, exercises |-> exs.recs],
             cache |-> exs.cache]))

\* canonical_sha256(log): the digest of the log's full dump with sorted keys.
\* SHA-256 is taken as collision free: the digest stands for the dumped value.
canonical_sha256(log) == <<"sha256", log>>

(***************************************************************************)
(* ingest.py: issues                                                       *)
(***************************************************************************)
IssueRecord(severity, type, location, raw_excerpt) ==
    [severity |-> severity, type |-> type, location |-> location, raw_excerpt |-> raw_excerpt,
     suggested_exercise_ids |-> None]

(***************************************************************************)
(* ingest.py: parse_text_fallback.  The three regular expressions are      *)
(* matched character by character.  Weights in the model's texts are whole *)
(* numbers and the multiplication sign is the letter x.                    *)
(***************************************************************************)
TEXT_STOP_WORDS ==
    {"maybe", "did", "not", "some", "the", "at", "then", "felt", "strong", "tomorrow",
     "i", "we", "a", "an", "and", "or", "is", "it", "to", "go", "went", "up", "no", "yes",
     "today", "sets", "set", "could", "sure", "unknown"}

LetterChars == CharsOf(Lowers)

is_plausible_exercise_name(name) ==
    Let(Lower(Strip(name)), LAMBDA n :
        ~(n = "" \/ Len(n) < 2) /\ n \notin TEXT_STOP_WORDS)

IsDigitAt(s, i) == i >= 1 /\ i <= Len(s) /\ Ch(s, i) \in DigitChars
IsSpaceAt(s, i) == i >= 1 /\ i <= Len(s) /\ IsSpace(Ch(s, i))
IsLetterAt(s, i) == i >= 1 /\ i <= Len(s) /\ Ch(s, i) \in LetterChars

\* the end of the run of digits that starts at i (i - 1 when there is none)
RECURSIVE DigitRunEnd(_, _)
DigitRunEnd(s, i) == IF IsDigitAt(s, i) THEN DigitRunEnd(s, i + 1) ELSE i - 1

\* the first position at or after i that holds no blank: \s* consumed
RECURSIVE SkipWs(_, _)
SkipWs(s, i) == IF IsSpaceAt(s, i) THEN SkipWs(s, i + 1) ELSE i

IsXAt(s, i) == i <= Len(s) /\ LowerChar(Ch(s, i)) = "x"
IsWordAt(s, i, w) == i + Len(w) - 1 <= Len(s) /\ Lower(SubSeq(s, i, i + Len(w) - 1)) = w

\* pattern_at, (\d+)\s*[x]\s*(\d+)\s+at\s+(\d+), tried at position i: the match or None
MatchAt(s, i) ==
    Let(DigitRunEnd(s, i), LAMBDA e1 :
    Let(SkipWs(s, e1 + 1), LAMBDA j :
    Let(SkipWs(s, j + 1), LAMBDA k :
    Let(DigitRunEnd(s, k), LAMBDA e2 :
    Let(SkipWs(s, e2 + 1), LAMBDA l :
    Let(SkipWs(s, l + 2), LAMBDA q :
    Let(DigitRunEnd(s, q), LAMBDA e3 :
        IF /\ IsDigitAt(s, i) /\ IsXAt(s, j) /\ IsDigitAt(s, k)
           /\ IsSpaceAt(s, e2 + 1) /\ IsWordAt(s, l, "at")
           /\ IsSpaceAt(s, l + 2) /\ IsDigitAt(s, q)
        THEN Some([start |-> i, end |-> e3,
                   num_sets |-> DigitsValue(SubSeq(s, i, e1)),
                   reps |-> DigitsValue(SubSeq(s, k, e2)),
                   weight |-> DigitsValue(SubSeq(s, q, e3)),
                   text |-> SubSeq(s, i, e3)])
        ELSE None)))))))

\* pattern_at.finditer(s): the matches from position i on, left to right, not overlapping
RECURSIVE AtMatches(_, _)
AtMatches(s, i) ==
    IF i > Len(s) THEN <<>>
    ELSE Let(MatchAt(s, i), LAMBDA m :
             IF IsNone(m) THEN AtMatches(s, i + 1)
             ELSE <<Val(m)>> \o AtMatches(s, Val(m).end + 1))

\* pattern_weight_only, (?:sets?\s+)?at\s+(\d+): the weights of its matches, left to right
RECURSIVE WeightOnlyMatches(_, _)
WeightOnlyMatches(s, i) ==
    IF i > Len(s) THEN <<>>
    ELSE Let(SkipWs(s, i + 2), LAMBDA q :
             IF IsWordAt(s, i, "at") /\ IsSpaceAt(s, i + 2) /\ IsDigitAt(s, q)
             THEN Let(DigitRunEnd(s, q), LAMBDA e :
                      <<DigitsValue(SubSeq(s, q, e))>> \o WeightOnlyMatches(s, e + 1))
             ELSE WeightOnlyMatches(s, i + 1))

\* pattern_named from the first digit, at d, of a stripped line
MatchNamedAt(s, d) ==
    Let(DigitRunEnd(s, d), LAMBDA e :
    Let(SkipWs(s, e + 1), LAMBDA j :
    Let(IF IsWordAt(s, j, "lb") \/ IsWordAt(s, j, "kg") THEN SkipWs(s, j + 2) ELSE j, LAMBDA x :
    Let(SkipWs(s, x + 1), LAMBDA k :
        IF d >= 3 /\ IsSpaceAt(s, d - 1) /\ IsXAt(s, x) /\ IsDigitAt(s, k)
        THEN Some([ex_name |-> Strip(SubSeq(s, 1, d - 1)),
                   weight |-> DigitsValue(SubSeq(s, d, e)),
                   reps |-> DigitsValue(SubSeq(s, k, DigitRunEnd(s, k)))])
        ELSE None))))

\* pattern_named, ^([^0-9\n]+?)\s+(\d+)\s*(?:lb|kg)?\s*[x]\s*(\d+), searched in a
\* stripped line: the match or None
MatchNamed(s) ==
    Let({i \in 1..Len(s) : Ch(s, i) \in DigitChars}, LAMBDA ds :
        IF ds = {} THEN None
        ELSE MatchNamedAt(s, CHOOSE i \in ds : \A j \in ds : i <= j))

\* str.find: the offset of the first occurrence of sub in s, or -1
Find(s, sub) ==
    Let({i \in 1..(Len(s) - Len(sub) + 1) : SubSeq(s, i, i + Len(sub) - 1) = sub}, LAMBDA ps :
        IF ps = {} THEN 0 - 1 ELSE (CHOOSE i \in ps : \A j \in ps : i <= j) - 1)

LowerToUpper == [c \in LetterChars |-> Ch(Uppers, CHOOSE i \in 1..Len(Lowers) : Ch(Lowers, i) = c)]

\* eid.replace("_", " ").title()
RECURSIVE TitleOfId(_, _)
TitleOfId(eid, wordStart) ==
    IF Len(eid) = 0 THEN ""
    ELSE IF Ch(eid, 1) = "_" THEN " " \o TitleOfId(Rest(eid), TRUE)
    ELSE (IF wordStart /\ Ch(eid, 1) \in LetterChars THEN LowerToUpper[Ch(eid, 1)] ELSE Ch(eid, 1))
         \o TitleOfId(Rest(eid), FALSE)

\* the starts of the matches of (?<![a-z])alias s?(?![a-z]) in the lower-cased text t
AliasStarts(t, alias) ==
    {p \in 1..(Len(t) - Len(alias) + 1) :
        /\ SubSeq(t, p, p + Len(alias) - 1) = alias
        /\ ~IsLetterAt(t, p - 1)
        /\ \/ ~IsLetterAt(t, p + Len(alias))
           \/ (Ch(t, p + Len(alias)) = "s" /\ ~IsLetterAt(t, p + Len(alias) + 1))}

SetMax(S) == CHOOSE x \in S : \A y \in S : y <= x

\* _infer_exercise_from_context(text_before): a display name or None
infer_exercise_from_context(text_before) ==
    Let([i \in 1..Len(EXERCISE_ALIASES) |-> AliasStarts(Lower(text_before), EXERCISE_ALIASES[i][1])],
        LAMBDA starts :
    Let({i \in 1..Len(EXERCISE_ALIASES) : starts[i] # {}}, LAMBDA hit :
        IF hit = {} THEN None
        ELSE Let(SetMax({SetMax(starts[i]) : i \in hit}), LAMBDA best :
                 \* the sort is stable: of the aliases found at the same place, the last one
                 Some(TitleOfId(EXERCISE_ALIASES[SetMax({h \in hit : SetMax(starts[h]) = best})][2],
                                TRUE)))))

TextSet(weight, reps) == [EmptySet EXCEPT !.weight = Num(weight), !.reps = Num(reps), !.unit = Str("lb")]

\* the state of the loop over lines
TextInit ==
    [result |-> <<>>, issues |-> <<>>, current_ex |-> None, current_sets |-> <<>>,
     text_so_far |-> "", weights_used |-> {}, raised |-> None]

\* close the running block when another exercise starts
StartExercise(st, ex) ==
    IF st.current_ex # Some(ex) /\ ~IsNone(st.current_ex) /\ st.current_sets # <<>>
    THEN [st EXCEPT !.result = Append(st.result, <<Val(st.current_ex), st.current_sets>>),
                    !.current_sets = <<>>, !.current_ex = Some(ex)]
    ELSE [st EXCEPT !.current_ex = Some(ex)]

RepeatSet(set, n) == [i \in 1..n |-> set]

\* the body of  for m in pattern_at.finditer(line_stripped)
TextAtStep(st, m) ==
    Let(Find(st.text_so_far, m.text), LAMBDA at :
    Let(infer_exercise_from_context(SubSeq(st.text_so_far, 1, IF at > 0 THEN at ELSE 0)),
        LAMBDA ex :
        IF ~IsNone(ex)
        THEN [StartExercise([st EXCEPT !.weights_used = @ \cup {m.weight}], Val(ex))
                 EXCEPT !.current_sets =
                     @ \o RepeatSet(TextSet(m.weight, m.reps), IF m.num_sets > 1 THEN m.num_sets ELSE 1)]
        ELSE [st EXCEPT !.weights_used = @ \cup {m.weight},
                        !.issues = Append(@, IssueRecord("warning", "ambiguous_exercise", "text", None))]))

RECURSIVE TextAtLoop(_, _)
TextAtLoop(st, ms) == IF ms = <<>> THEN st ELSE TextAtLoop(TextAtStep(st, Head(ms)), Tail(ms))

\* the body of  for m in pattern_weight_only.finditer(line_stripped)
TextWeightStep(st, w) ==
    IF /\ w \notin st.weights_used
       /\ ~\E b \in 1..Len(st.result) : \E i \in 1..Len(st.result[b][2]) :
              st.result[b][2][i].weight = Num(w) /\ Truthy(st.result[b][2][i].reps)
    THEN [st EXCEPT !.weights_used = @ \cup {w},
                    !.issues = Append(@, IssueRecord("warning", "incomplete_set", "text", None))]
    ELSE st

RECURSIVE TextWeightLoop(_, _)
TextWeightLoop(st, ws) == IF ws = <<>> THEN st ELSE TextWeightLoop(TextWeightStep(st, Head(ws)), Tail(ws))

\* line_stripped.split()
RECURSIVE Split(_)
Split(s) ==
    Let(LStrip(s), LAMBDA t :
        IF t = "" THEN <<>>
        ELSE Let({i \in 1..Len(t) : IsSpace(Ch(t, i))}, LAMBDA sp :
             Let(IF sp = {} THEN Len(t) ELSE (CHOOSE i \in sp : \A j \in sp : i <= j) - 1,
                 LAMBDA e : <<SubSeq(t, 1, e)>> \o Split(SubSeq(t, e + 1, Len(t))))))

RECURSIVE RemoveDots(_)
RemoveDots(s) ==
    IF Len(s) = 0 THEN "" ELSE (IF Ch(s, 1) = "." THEN "" ELSE Ch(s, 1)) \o RemoveDots(Rest(s))

\* float(token) in weights_used, for a token of digits with at most one dot: the
\* weights of the full sets are whole numbers, so a fraction other than zero is new
BareNumberUsed(token, weights_used) ==
    Let({i \in 1..Len(token) : Ch(token, i) = "."}, LAMBDA dots :
    Let(IF dots = {} THEN Len(token) + 1 ELSE CHOOSE i \in dots : TRUE, LAMBDA d :
    Let(SubSeq(token, d + 1, Len(token)), LAMBDA frac :
        /\ \A i \in 1..Len(frac) : Ch(frac, i) = "0"
        /\ DigitsValue(SubSeq(token, 1, d - 1)) \in weights_used)))

\* the part of the loop body after the two finditer loops, on the line's
\* pattern_named match m, its tokens and its excerpt
TextNamedStepOf(st, m, tokens, excerpt) ==
    IF ~IsNone(m) /\ ~is_plausible_exercise_name(Val(m).ex_name)
    THEN [st EXCEPT !.issues = Append(@, IssueRecord("warning", "invalid_exercise_name", "text", excerpt))]
    ELSE IF ~IsNone(m)
    THEN [StartExercise(st, Val(m).ex_name)
             EXCEPT !.current_sets = Append(@, TextSet(Val(m).weight, Val(m).reps)),
                    !.weights_used = @ \cup {Val(m).weight}]
    ELSE IF Len(tokens) = 1 /\ Lower(tokens[1]) \in TEXT_STOP_WORDS
    THEN [st EXCEPT !.issues = Append(@, IssueRecord("warning", "invalid_exercise_name", "text", excerpt))]
    ELSE IF Len(tokens) = 1 /\ AllDigits(RemoveDots(tokens[1]))
    THEN (IF Len(tokens[1]) - Len(RemoveDots(tokens[1])) > 1
          \* float() of digits with more than one dot
          THEN [st EXCEPT !.raised = Some("ValueError")]
          ELSE IF ~BareNumberUsed(tokens[1], st.weights_used)
          THEN [st EXCEPT !.issues = Append(@, IssueRecord("warning", "incomplete_set", "text", excerpt))]
          ELSE st)
    ELSE st

TextNamedStep(st, line_stripped) ==
    TextNamedStepOf(st, MatchNamed(line_stripped), Split(line_stripped),
                    Some(SubSeq(line_stripped, 1,
                                IF Len(line_stripped) < 80 THEN Len(line_stripped) ELSE 80)))

\* the body of  for line in lines
TextLine(st, line) ==
    Let(Strip(line), LAMBDA line_stripped :
        IF line_stripped = "" THEN st
        ELSE TextNamedStep(
                 TextWeightLoop(
                     TextAtLoop([st EXCEPT !.text_so_far = @ \o " " \o line_stripped],
                                AtMatches(line_stripped, 1)),
                     WeightOnlyMatches(line_stripped, 1)),
                 line_stripped))

RECURSIVE TextLines(_, _)
TextLines(st, lines) ==
    IF lines = <<>> \/ ~IsNone(st.raised) THEN st ELSE TextLines(TextLine(st, Head(lines)), Tail(lines))

\* parse_text_fallback(content): Ok(<<parsed exercises, issues>>) or the exception
parse_text_fallback(lines) ==
    Let(TextLines(TextInit, lines), LAMBDA st :
        IF ~IsNone(st.raised) THEN Raise(Val(st.raised))
        ELSE Ok(<<IF ~IsNone(st.current_ex) /\ st.current_sets # <<>>
                  THEN Append(st.result, <<Val(st.current_ex), st.current_sets>>)
                  ELSE st.result,
                  st.issues>>))

(***************************************************************************)
(* ingest.py: parse_json.  The content is given as json.loads decodes it:  *)
(*   <<"invalid">>          json.loads raises JSONDecodeError              *)
(*   <<"list", rows>>       an array; a row is <<"obj", r>> or a scalar    *)
(*   <<"sessions", ss>>     an object with key sessions; a session is      *)
(*                          <<"obj", [date, exercises]>>, an exercise      *)
(*                          block <<"obj", [name, sets]>>, a set           *)
(*                          <<"obj", r>> or a number                       *)
(*   <<"other">>            any other document                             *)
(* An object r has the keys of EmptyRow; the model's documents spell the   *)
(* keys in lower case (exercise, name, weight, reps, ...).                 *)
(***************************************************************************)
EmptyRow ==
    [exercise |-> Absent, type |-> Absent,
     weight |-> Absent, reps |-> Absent, unit |-> Absent, load_type |-> Absent,
     added_weight |-> Absent, added_weight_unit |-> Absent, added_load |-> Absent,
     set_type |-> Absent, rpe |-> Absent]

IsObj(v) == v[1] = "obj"
\* the keys normalize_set reads
AsSet(r) == [f \in DOMAIN EmptySet |-> r[f]]
First2Lower(s) == Lower(SubSeq(s, 1, IF Len(s) < 2 THEN Len(s) ELSE 2))
LbOrKg(u) == IF u \in {"lb", "kg"} THEN u ELSE "lb"

\* the load type of a dict of the flat list, from its lowered load_type or type
json_flat_load_type(row, raw_lt) ==
    IF raw_lt \in {"bodyweight", "bw"} THEN "bodyweight"
    ELSE IF raw_lt \in {"bodyweight_plus", "bodyweight +", "weighted bw"} \/ ~IsNull(row.added_weight)
    THEN "bodyweight_plus"
    ELSE IF IsNull(row.weight) THEN "bodyweight"
    ELSE IF IsNum(row.weight) /\ row.weight[2] = 0 /\ raw_lt # "weighted" THEN "bodyweight"
    ELSE "weighted"

\* the set dict of a dict of the flat list
json_flat_set(row, lt, reps, added, auv, weight, rpe) ==
    Let([EmptySet EXCEPT !.load_type = Str(lt), !.reps = Num(reps.v),
                         !.rpe = IF ~IsNull(row.rpe) THEN Num(rpe.v) ELSE @,
                         !.set_type = IF Truthy(row.set_type)
                                      THEN Str(Lower(Strip(row.set_type[2]))) ELSE @],
        LAMBDA base :
        IF lt = "bodyweight" THEN [base EXCEPT !.weight = Null]
        ELSE IF lt = "bodyweight_plus"
        THEN [base EXCEPT !.weight = Null, !.added_weight = Num(added.v),
                          !.added_weight_unit = Str(LbOrKg(First2Lower(Strip(auv[2]))))]
        ELSE IF Truthy(row.unit)
        THEN [base EXCEPT !.weight = Num(weight.v), !.unit = Str(Strip(row.unit[2]))]
        ELSE [base EXCEPT !.weight = Num(weight.v)])

\* a dict of the flat list once its fields are read, in the order the code reads them
json_flat_row_of(row, exv, ltv, lt, reps, added, auv, weight, rpe) ==
    IF ~IsStr(exv) THEN [k |-> "raise", exc |-> "AttributeError"]
    ELSE IF Strip(exv[2]) = "" THEN [k |-> "skip"]
    ELSE IF ~IsStr(ltv) THEN [k |-> "raise", exc |-> "AttributeError"]
    ELSE IF lt = "bodyweight_plus" /\ ~added.ok THEN [k |-> "raise", exc |-> added.exc]
    ELSE IF lt = "bodyweight_plus" /\ ~IsStr(auv) THEN [k |-> "raise", exc |-> "AttributeError"]
    ELSE IF lt = "weighted" /\ ~weight.ok THEN [k |-> "raise", exc |-> weight.exc]
    ELSE IF ~reps.ok THEN [k |-> "raise", exc |-> reps.exc]
    ELSE IF lt = "weighted" /\ Truthy(row.unit) /\ ~IsStr(row.unit)
    THEN [k |-> "raise", exc |-> "AttributeError"]
    ELSE IF ~IsNull(row.rpe) /\ ~rpe.ok THEN [k |-> "raise", exc |-> rpe.exc]
    ELSE IF Truthy(row.set_type) /\ ~IsStr(row.set_type) THEN [k |-> "raise", exc |-> "AttributeError"]
    ELSE [k |-> "row", ex |-> Strip(exv[2]),
          set |-> json_flat_set(row, lt, reps, added, auv, weight, rpe)]

\* the lowered load_type of a dict of the flat list, or its lowered type when
\* load_type is empty and type names a bodyweight load
json_flat_raw_lt(row, lowered) ==
    IF lowered = "" /\ IsStr(row.type)
       /\ Lower(Strip(row.type[2])) \in {"bodyweight", "bodyweight_plus", "bw"}
    THEN Lower(Strip(row.type[2]))
    ELSE lowered

\* one dict of the flat list: [k |-> "skip"], [k |-> "raise", exc] or [k |-> "row", ex, set]
json_flat_row(row) ==
    Let(PyOr(row.load_type, Str("")), LAMBDA ltv :
        json_flat_row_of(row, PyOr(row.exercise, Str("")), ltv,
                         json_flat_load_type(row, json_flat_raw_lt(row, Lower(Strip(ltv[2])))),
                         ToNum(GetOr(row.reps, Num(0))),
                         ToNum(PyOr(row.added_weight, Num(0))),
                         PyOr(row.added_weight_unit, PyOr(row.unit, Str("lb"))),
                         ToNum(row.weight),
                         ToNum(row.rpe)))

\* the loop over the flat list: Ok(by_exercise) or the exception
RECURSIVE json_flat_rows(_, _)
json_flat_rows(by_exercise, rows) ==
    IF rows = <<>> THEN Ok(by_exercise)
    ELSE IF ~IsObj(Head(rows)) THEN json_flat_rows(by_exercise, Tail(rows))
    ELSE Let(json_flat_row(Head(rows)[2]), LAMBDA r :
             IF r.k = "raise" THEN Raise(r.exc)
             ELSE IF r.k = "skip" THEN json_flat_rows(by_exercise, Tail(rows))
             ELSE Let(SetDefault(by_exercise, r.ex, <<>>), LAMBDA d :
                      json_flat_rows(Put(d, r.ex, Append(Get(d, r.ex), r.set)), Tail(rows))))

\* a set object of an exercise block, its set_type taken from type when type
\* names one and set_type is not given
json_nested_typed(s0) ==
    IF s0.type # Absent /\ s0.set_type = Absent /\ Truthy(s0.type) /\ IsStr(s0.type)
       /\ Lower(Strip(s0.type[2])) \in SetTypes
    THEN [s0 EXCEPT !.set_type = Str(Lower(Strip(s0.type[2])))]
    ELSE s0

\* a set object of an exercise block once its fields are read; lt is the lowered load_type
json_nested_set_of(s, lt, added, auv, weight) ==
    IF lt \in {"bodyweight", "bw"}
    THEN Ok(<<AsSet([s EXCEPT !.weight = Null, !.load_type = Str("bodyweight")])>>)
    ELSE IF lt = "bodyweight_plus" \/ ~IsNull(s.added_weight)
    THEN (IF ~added.ok THEN added
          ELSE IF Truthy(auv) /\ ~IsStr(auv) THEN Raise("TypeError")
          ELSE Ok(<<AsSet([s EXCEPT !.weight = Null, !.load_type = Str("bodyweight_plus"),
                                    !.added_weight = Num(added.v),
                                    !.added_weight_unit =
                                        Str(IF Truthy(auv) THEN LbOrKg(First2Lower(auv[2])) ELSE "lb")])>>))
    ELSE IF IsNull(s.weight)
    THEN Ok(<<AsSet([s EXCEPT !.weight = Null, !.load_type = Str("bodyweight")])>>)
    ELSE IF ~weight.ok THEN weight
    ELSE Ok(<<AsSet([s EXCEPT !.weight = Num(weight.v),
                               !.load_type = PyOr(s.load_type, Str("weighted"))])>>)

\* one entry of an exercise block's sets: Ok(<<set dict>>), Ok(<<>>) or the exception
json_nested_set(sv) ==
    IF IsNum(sv)
    THEN Ok(<<[EmptySet EXCEPT !.reps = sv, !.weight = Null, !.load_type = Str("bodyweight")]>>)
    ELSE IF ~IsObj(sv) THEN Ok(<<>>)
    ELSE Let(json_nested_typed(sv[2]), LAMBDA s :
         Let(PyOr(s.load_type, Str("")), LAMBDA ltv :
             IF ~IsStr(ltv) THEN Raise("AttributeError")
             ELSE json_nested_set_of(s, Lower(Strip(ltv[2])),
                                     ToNum(PyOr(s.added_weight, Num(0))),
                                     PyOr(s.added_weight_unit, s.unit),
                                     ToNum(s.weight))))

RECURSIVE json_nested_sets(_)
json_nested_sets(sets_raw) ==
    IF sets_raw = <<>> THEN Ok(<<>>)
    ELSE Bind(json_nested_set(Head(sets_raw)), LAMBDA h :
         Bind(json_nested_sets(Tail(sets_raw)), LAMBDA t : Ok(h \o t)))

\* the loop over a session's exercise blocks: Ok(ex_list) or the exception
RECURSIVE json_ex_blocks(_)
json_ex_blocks(blocks) ==
    IF blocks = <<>> THEN Ok(<<>>)
    ELSE Let2(Head(blocks),
              IF IsObj(Head(blocks)) THEN PyOr(Head(blocks)[2].name, Str("")) ELSE Str(""),
              LAMBDA b, namev :
              IF ~IsStr(namev) THEN Raise("AttributeError")
              ELSE Bind(IF IsObj(b) /\ Strip(namev[2]) # ""
                        THEN json_nested_sets(b[2].sets) ELSE Ok(<<>>),
                        LAMBDA sets :
                   Bind(json_ex_blocks(Tail(blocks)), LAMBDA t :
                        IF sets # <<>> THEN Ok(<< <<Strip(namev[2]), sets>> >> \o t)
                        ELSE Ok(t))))

\* the date string of a session object, or None
json_session_date(sess) ==
    IF IsStr(sess.date) /\ Strip(sess.date[2]) # "" THEN Some(Strip(sess.date[2])) ELSE None

\* the loop over data["sessions"]: Ok(sessions_out) or the exception
RECURSIVE json_sessions(_)
json_sessions(ss) ==
    IF ss = <<>> THEN Ok(<<>>)
    ELSE IF ~IsObj(Head(ss)) THEN json_sessions(Tail(ss))
    ELSE Bind(json_ex_blocks(Head(ss)[2].exercises), LAMBDA ex_list :
         Bind(json_sessions(Tail(ss)), LAMBDA t :
              IF ex_list # <<>> THEN Ok(<< <<json_session_date(Head(ss)[2]), ex_list>> >> \o t)
              ELSE Ok(t)))

\* parse_json(content): the raw sessions, or the exception raised
parse_json(data) ==
    IF data[1] = "invalid" THEN Ok(<<>>)
    ELSE IF data[1] = "list"
    THEN Bind(json_flat_rows(<<>>, data[2]), LAMBDA by : Ok(<< <<None, by>> >>))
    ELSE IF data[1] = "sessions" THEN json_sessions(data[2])
    ELSE Ok(<<>>)

(***************************************************************************)
(* ingest.py: confidence.  Confidence values are in hundredths.            *)
(***************************************************************************)
CONFIDENCE_PENALTY ==
    << <<"missing_date", 15>>, <<"missing_date_autofilled", 15>>,
       <<"invalid_exercise_name", 20>>, <<"incomplete_set", 10>>,
       <<"ambiguous_exercise", 15>>, <<"ambiguous_set_format", 15>>,
       <<"unmapped_exercise", 10>> >>
CONFIDENCE_FLOOR == 25
CONFIDENCE_THRESHOLD == 70

RECURSIVE PenaltySum(_)
PenaltySum(issues) ==
    IF issues = <<>> THEN 0
    ELSE (IF HasKey(CONFIDENCE_PENALTY, Head(issues).type)
          THEN Get(CONFIDENCE_PENALTY, Head(issues).type) ELSE 0) + PenaltySum(Tail(issues))

Max2(a, b) == IF a >= b THEN a ELSE b
Min2(a, b) == IF a <= b THEN a ELSE b

\* _compute_confidence(issues)
compute_confidence(issues) == Max2(CONFIDENCE_FLOOR, Min2(100, 100 - PenaltySum(issues)))

(***************************************************************************)
(* ingest.py: build_canonical_log.  uuid4 is the one source of chance: a   *)
(* call draws a seed, and the ids it makes are named after the seed.       *)
(* Issue messages are fixed texts over the fields kept here; the           *)
(* suggested ids of an unmapped exercise are left out.                     *)
(***************************************************************************)
SessionId(seed, i) == <<"sess", seed, i>>
generate_id(prefix, seed) == <<prefix, seed>>

IsUnmapped(ex) == StartsWith(ex.exercise_id, "unmapped:")

\* raw_lower in text or text in raw_lower
EitherContains(raw_lower, text) == Contains(raw_lower, text) \/ Contains(text, raw_lower)

\* the loop body of suggest_exercises_for_unmapped: the entry is a close match
IsSuggested(e, raw_lower) ==
    /\ e.exercise_id # ""
    /\ \/ EitherContains(raw_lower, Lower(e.display))
       \/ \E k \in 1..Len(e.aliases) : EitherContains(raw_lower, Lower(e.aliases[k]))

\* a suggestion list without the cut at max_suggestions
suggest_all_matches(c, files, raw, max_suggestions) ==
    Let2(Val(load_registry(c, files).registry), Lower(Strip(raw)), LAMBDA reg, raw_lower :
         IF reg = <<>> \/ raw_lower = "" THEN <<>>
         ELSE SortStrs({reg[k].exercise_id : k \in {n \in 1..Len(reg) : IsSuggested(reg[n], raw_lower)}}))

\* suggest_exercises_for_unmapped(raw, max_suggestions): sorted(seen)[:max_suggestions]
suggest_exercises_for_unmapped(c, files, raw, max_suggestions) ==
    Let2(Val(load_registry(c, files).registry), Lower(Strip(raw)), LAMBDA reg, raw_lower :
         IF reg = <<>> \/ raw_lower = "" THEN <<>>
         ELSE Let(SortStrs({reg[k].exercise_id :
                              k \in {n \in 1..Len(reg) : IsSuggested(reg[n], raw_lower)}}),
                  LAMBDA seen : SubSeq(seen, 1, Min2(Max2(max_suggestions, 0), Len(seen)))))

\* the unmapped_exercise warnings of session i; the registry is loaded by then,
\* an unmapped id coming out of resolve_exercise after its _load_registry()
UnmappedIssues(c, files, i, exercises) ==
    Let(SelectSeq([j \in 1..Len(exercises) |-> j], LAMBDA j : IsUnmapped(exercises[j])),
        LAMBDA js :
        [n \in 1..Len(js) |->
            Let(suggest_exercises_for_unmapped(c, files, exercises[js[n]].exercise_raw, 3),
                LAMBDA suggested :
                [IssueRecord("warning", "unmapped_exercise",
                             "sessions[" \o NumToStr(i) \o "].exercises[" \o NumToStr(js[n] - 1) \o "]",
                             Some(exercises[js[n]].exercise_raw))
                 EXCEPT !.suggested_exercise_ids = IF suggested # <<>> THEN Some(suggested)
                                                   ELSE None])])

\* the date a raw session is stored with
session_norm_date(date_str, session_date_hint) ==
    IF ~IsNone(date_str) /\ Val(date_str) # ""
    THEN normalize_date(Val(date_str), session_date_hint)
    ELSE session_date_hint

DateIssues(i, date_str, session_date_hint) ==
    Let(session_norm_date(date_str, session_date_hint), LAMBDA norm_date :
        IF IsNone(norm_date) \/ norm_date = Some("")
        THEN <<IssueRecord("warning", "missing_date", "session_" \o NumToStr(i), None)>>
        ELSE IF ~(~IsNone(date_str) /\ Val(date_str) # "")
                /\ ~IsNone(session_date_hint) /\ Val(session_date_hint) # ""
        THEN <<IssueRecord("warning", "missing_date_autofilled", "session_" \o NumToStr(i), None)>>
        ELSE <<>>)

\* the loop over raw_sessions from index i on: Ok([sessions, issues, cache]) or the exception
RECURSIVE build_sessions(_, _, _, _, _, _, _, _)
build_sessions(c, files, raw_sessions, i, default_unit, session_date_hint, source, seed) ==
    IF raw_sessions = <<>> THEN Ok([sessions |-> <<>>, issues |-> <<>>, cache |-> c])
    ELSE Bind(normalize_session(c, files, SessionId(seed, i),
                                session_norm_date(Head(raw_sessions)[1], session_date_hint),
                                Head(raw_sessions)[2], default_unit, source),
              LAMBDA sess :
         Bind(build_sessions(sess.cache, files, Tail(raw_sessions), i + 1,
                             default_unit, session_date_hint, source, seed),
              LAMBDA t :
              Ok([sessions |-> <<sess.rec>> \o t.sessions,
                  issues |-> DateIssues(i, Head(raw_sessions)[1], session_date_hint)
                             \o UnmappedIssues(sess.cache, files, i, sess.rec.exercises)
                             \o t.issues,
                  cache |-> t.cache])))

build_canonical_log(c, files, raw_sessions, default_unit, session_date_hint, source, seed) ==
    build_sessions(c, files, raw_sessions, 0, default_unit, session_date_hint, source, seed)

(***************************************************************************)
(* ingest.py: ingest_log_impl.                                             *)
(* A payload is [user_id, default_unit, content_type, content, app,        *)
(* options]; user_id, app and options are Optional, options is             *)
(* [session_date_hint, allow_llm, strictness].  The content string is      *)
(* given in the reading its content_type asks for, [csv, json, text]: the  *)
(* CSV as DictReader sees it, the decoded JSON, or the text's lines (the   *)
(* other two readings are left empty).  An LLM parser is None or           *)
(* Some([raises, reply]): a callable that raises or returns its raw        *)
(* sessions.                                                               *)
(***************************************************************************)
IngestOptions == [session_date_hint |-> None, allow_llm |-> FALSE, strictness |-> "normal"]

default_options(opts) == IF IsNone(opts) THEN IngestOptions ELSE Val(opts)

HasBlocking(issues) == \E i \in 1..Len(issues) : issues[i].severity = "blocking"
HasType(issues, type) == \E i \in 1..Len(issues) : issues[i].type = type

CountExercises(sessions) == SumSeq([i \in 1..Len(sessions) |-> Len(sessions[i].exercises)])
CountSets(sessions) ==
    SumSeq([i \in 1..Len(sessions) |->
              SumSeq([j \in 1..Len(sessions[i].exercises) |-> Len(sessions[i].exercises[j].sets)])])
CountUnmapped(sessions) ==
    SumSeq([i \in 1..Len(sessions) |->
              SumSeq([j \in 1..Len(sessions[i].exercises) |->
                        IF IsUnmapped(sessions[i].exercises[j]) THEN 1 ELSE 0])])

\* the raw_excerpt of a parse_error: the model keeps whether there was content
ContentExcerpt(content) == IF content = <<>> THEN None ELSE Some("content")

\* d or options.session_date_hint, per parsed session
FillDates(parsed, hint) ==
    [i \in 1..Len(parsed) |->
        <<IF ~IsNone(parsed[i][1]) /\ Val(parsed[i][1]) # "" THEN parsed[i][1] ELSE hint, parsed[i][2]>>]

IngestLogOutput(status, user_id, log_id, canonical_log, issues, summary, sha, meta, stage) ==
    [status |-> status, user_id |-> user_id, log_id |-> log_id, canonical_log |-> canonical_log,
     issues |-> issues, summary |-> summary, signature |-> [canonical_sha256 |-> sha],
     meta |-> meta,
     \* not a field of the reply: whether the call returned before or after canonicalization
     stage |-> stage]

IngestSummary(sessions, exercises, sets, unmapped, confidence) ==
    [sessions_detected |-> sessions, exercises_detected |-> exercises, sets_detected |-> sets,
     unmapped_exercises |-> unmapped, confidence |-> confidence]

\* the call of the LLM parser with llm_used set before the parser has returned
llm_stage_used_first(llm_parser) ==
    IF llm_parser.raises
    THEN [raw_sessions |-> <<>>,
          issues |-> <<IssueRecord("blocking", "llm_parse_error", "text", None)>>,
          llm_used |-> TRUE]
    ELSE [raw_sessions |-> llm_parser.reply, issues |-> <<>>, llm_used |-> TRUE]

\* try: raw_sessions = llm_parser(...); llm_used = True / except Exception: the issue
llm_stage(llm_parser) ==
    IF llm_parser.raises
    THEN [raw_sessions |-> <<>>,
          issues |-> <<IssueRecord("blocking", "llm_parse_error", "text", None)>>,
          llm_used |-> FALSE]
    ELSE [raw_sessions |-> llm_parser.reply, issues |-> <<>>, llm_used |-> TRUE]

\* a text branch that loses the issues in first when sets were found
ingest_text_stage_first_lost(payload, options, first) ==
    Bind(parse_text_fallback(payload.content.text), LAMBDA text :
         IF text[1] = <<>>
         THEN Ok([raw_sessions |-> <<>>,
                  issues |-> first \o text[2] \o
                             <<IssueRecord("blocking", "parse_error", "text", ContentExcerpt(payload.content.text))>>,
                  llm_used |-> FALSE])
         ELSE Ok([raw_sessions |-> << <<options.session_date_hint, text[1]>> >>,
                  issues |-> text[2], llm_used |-> FALSE]))

\* the text branch without an LLM parser: the fallback parser's exercises as one
\* session, after the issues in first
ingest_text_stage(payload, options, first) ==
    Bind(parse_text_fallback(payload.content.text), LAMBDA text :
         IF text[1] = <<>>
         THEN Ok([raw_sessions |-> <<>>,
                  issues |-> first \o text[2] \o
                             <<IssueRecord("blocking", "parse_error", "text", ContentExcerpt(payload.content.text))>>,
                  llm_used |-> FALSE])
         ELSE Ok([raw_sessions |-> << <<options.session_date_hint, text[1]>> >>,
                  issues |-> first \o text[2], llm_used |-> FALSE]))

\* the csv and json branches, on the parser's result
ingest_parsed_stage(parsed, options, location, excerpt) ==
    Bind(parsed, LAMBDA sessions :
         IF sessions = <<>>
         THEN Ok([raw_sessions |-> <<>>,
                  issues |-> <<IssueRecord("blocking", "parse_error", location, excerpt)>>,
                  llm_used |-> FALSE])
         ELSE Ok([raw_sessions |-> FillDates(sessions, options.session_date_hint),
                  issues |-> <<>>, llm_used |-> FALSE]))

\* the parsing stage: Ok([raw_sessions, issues, llm_used]) or the exception
ingest_parse(payload, options, llm_parser) ==
    IF payload.content_type = "csv"
    THEN ingest_parsed_stage(parse_csv(payload.content.csv), options, "csv",
                             ContentExcerpt(payload.content.csv.fieldnames))
    ELSE IF payload.content_type = "json"
    THEN ingest_parsed_stage(parse_json(payload.content.json), options, "json", Some("content"))
    ELSE IF payload.content_type = "text"
    THEN IF options.allow_llm /\ ~IsNone(llm_parser)
         THEN Ok(llm_stage(Val(llm_parser)))
         ELSE ingest_text_stage(payload, options,
                                IF options.allow_llm
                                THEN <<IssueRecord("warning", "llm_unavailable", "text", None)>>
                                ELSE <<>>)
    ELSE Ok([raw_sessions |-> <<>>,
             issues |-> <<IssueRecord("blocking", "unsupported_type", "log_input", None)>>,
             llm_used |-> FALSE])

\* an escalation that is switched off
strict_escalation_off(options, issues) == issues

\* Strictness: missing_date is blocking when strict
strict_escalation(options, issues) ==
    IF options.strictness = "strict" /\ HasType(issues, "missing_date")
    THEN Append(issues, IssueRecord("blocking", "missing_date", "session", None))
    ELSE issues

\* a status rule that leaves the confidence out
ingest_status_no_threshold(issues, exercises_detected, sets_detected, confidence) ==
    IF HasBlocking(issues) \/ exercises_detected = 0 \/ sets_detected = 0
    THEN "needs_clarification" ELSE "ok"

\* the status rules of ingest_policy v1.1, over the issue list after the escalation
ingest_status(issues, exercises_detected, sets_detected, confidence) ==
    IF HasBlocking(issues) \/ exercises_detected = 0 \/ sets_detected = 0
       \/ confidence < CONFIDENCE_THRESHOLD
    THEN "needs_clarification" ELSE "ok"

\* a log id handed out whatever the status
ingest_log_id_always(status, log, seed) == Some(generate_id("log", seed))

\* log_id = _generate_id("log") if (status == "ok" and canonical_log.sessions) else None
ingest_log_id(status, log, seed) ==
    IF status = "ok" /\ log # <<>> THEN Some(generate_id("log", seed)) ELSE None

\* a reply whose confidence is computed after the escalation
ingest_canonical_reply_scored_last(log, issues, options, user_id, meta, seed) ==
    Let(strict_escalation(options, issues), LAMBDA strict_issues :
    Let2(compute_confidence(strict_issues),
         ingest_status(strict_issues, CountExercises(log), CountSets(log), compute_confidence(strict_issues)),
         LAMBDA confidence, status :
        IngestLogOutput(status, user_id,
                        ingest_log_id(status, log, seed),
                        log, strict_issues,
                        IngestSummary(Len(log), CountExercises(log), CountSets(log),
                                      CountUnmapped(log), confidence),
                        canonical_sha256(log), meta, "canonical")))

\* the reply after canonicalization: confidence, strictness, status, log id
ingest_canonical_reply(log, issues, options, user_id, meta, seed) ==
    Let2(compute_confidence(issues), strict_escalation(options, issues),
         LAMBDA confidence, strict_issues :
    Let(ingest_status(strict_issues, CountExercises(log), CountSets(log), confidence),
        LAMBDA status :
        IngestLogOutput(status, user_id,
                        ingest_log_id(status, log, seed),
                        log, strict_issues,
                        IngestSummary(Len(log), CountExercises(log), CountSets(log),
                                      CountUnmapped(log), confidence),
                        canonical_sha256(log), meta, "canonical")))

\* ingest_log_impl from the parsing stage's result p on
ingest_after_parse(c, files, payload, options, user_id, meta, p, seed) ==
    IF p.raw_sessions = <<>> /\ p.issues # <<>>
    THEN [out |-> Ok(IngestLogOutput(
                        IF HasBlocking(p.issues) THEN "needs_clarification" ELSE "error",
                        user_id, None, <<>>, p.issues,
                        IngestSummary(0, 0, 0, 0, 0), <<"">>, meta, "parse")),
          cache |-> c]
    ELSE Let(build_canonical_log(c, files, p.raw_sessions, payload.default_unit,
                                 options.session_date_hint,
                                 IF ~IsNone(payload.app) /\ Val(payload.app) # ""
                                 THEN payload.app ELSE None,
                                 seed),
             LAMBDA b :
             IF ~b.ok THEN [out |-> Raise(b.exc), cache |-> b.cache]
             ELSE [out |-> Ok(ingest_canonical_reply(b.v.sessions, p.issues \o b.v.issues,
                                                     options, user_id, meta, seed)),
                   cache |-> b.v.cache])

\* ingest_log_impl(payload, llm_parser): [out |-> Ok(reply) or the exception, cache]
ingest_log_impl(c, files, payload, llm_parser, seed) ==
    Let(default_options(payload.options), LAMBDA options :
    Let(ingest_parse(payload, options, llm_parser), LAMBDA p :
        IF ~p.ok THEN [out |-> Raise(p.exc), cache |-> c]
        ELSE ingest_after_parse(c, files, payload, options,
                                IF ~IsNone(payload.user_id) /\ Val(payload.user_id) # ""
                                THEN <<"client", Val(payload.user_id)>>
                                ELSE generate_id("req", seed),
                                [llm_available |-> ~IsNone(llm_parser), llm_used |-> p.v.llm_used],
                                p.v, seed)))

(***************************************************************************)
(* The calls of ingest_log the model makes                                 *)
(***************************************************************************)
Csv(fieldnames, rows) == [fieldnames |-> fieldnames, rows |-> rows]

CsvContents ==
    { Csv(<<"exercise", "weight", "reps">>, << <<"Bench Press", "135", "5">> >>),
      Csv(<<"exercise", "weight">>, << <<"Bench Press", "135">> >>),
      Csv(<<"Date", "Exercise", "Weight", "Reps", "Unit">>,
          << <<"01/15/2024", "Squat", "225", "5", "lb">>,
             <<"01/15/2024", "Pull Ups", "bw", "8", "">>,
             <<"2024-01-17", "Pull Ups", "+25", "6", "kg">> >>),
      Csv(<<"exercise", "weight", "reps", "date">>, << <<"Squat", "135", "5">> >>),
      Csv(<<"date", "exercise", "weight", "reps">>, << <<"2024-13-45", "Squat", "135", "5">> >>),
      Csv(<<"exercise", "weight", "reps">>, << <<"Squat", "135", "-5">>, <<"Squat", "135", "0">> >>),
      Csv(<<"exercise", "weight", "reps">>,
          << <<"Squat", "135", "five">>, <<"Bench", "heavy", "5">>, <<"Deadlift", "315", "3">> >>),
      Csv(<<"exercise", "weight", "reps">>,
          << <<"Zercher Carry", "100", "5">>, <<"Sled Push", "200", "3">>,
             <<"Jefferson Curl", "40", "8">>, <<"Wrist Roller", "10", "12">> >>),
      Csv(<<"exercise", "weight", "reps">>,
          << <<"P", "50", "5">>, <<"Weighted Pull Up", "25", "5">>, <<"Squat", "135", "5">> >>),
      Csv(<<>>, <<>>) }

Obj(r) == <<"obj", r>>
Row(exercise, weight, reps) == [EmptyRow EXCEPT !.exercise = exercise, !.weight = weight, !.reps = reps]
Block(name, sets) == Obj([name |-> name, sets |-> sets])

JsonContents ==
    { <<"list", << Obj(Row(Str("Bench Press"), Num(135), Num(5))),
                   Obj(Row(Str("Pull Ups"), Null, Num(8))),
                   Obj(Row(Str("Bench Press"), Num(140), Str("5"))) >> >>,
      <<"list", << Obj(Row(Str("Squat"), Num(135), Str("five"))) >> >>,
      <<"list", << Obj(Row(Str("Squat"), Str("heavy"), Num(5))) >> >>,
      <<"list", << Obj([Row(Str("Leg Press"), Num(100), Num(10)) EXCEPT !.load_type = Str("machine")]) >> >>,
      <<"list", <<>> >>,
      <<"sessions",
        << Obj([date |-> Str("2024-01-15"),
                exercises |-> << Block(Str("Squat"),
                                       << Obj(Row(Absent, Num(225), Num(5))), Num(8) >>) >>]),
           Obj([date |-> Absent,
                exercises |-> << Block(Str("Dips"),
                                       << Obj([Row(Absent, Absent, Num(6)) EXCEPT
                                                 !.added_weight = Num(25), !.unit = Str("kg")]) >>) >>]) >> >>,
      <<"invalid">>,
      <<"other">> }

TextContents ==
    { <<"Bench Press 135x5", "Bench Press 140 x 5">>,
      <<"3x5 at 225">>,
      <<"squat day", "3x5 at 225">>,
      <<"Maybe", "135">>,
      <<"1.2.3">>,
      <<"Zercher Carry 100x5", "Sled Push 200 lb x 3", "Maybe", "went 50 x 5", "sets at 95">>,
      <<>> }

LlmSet(weight, reps, unit, load_type) ==
    [EmptySet EXCEPT !.weight = weight, !.reps = reps, !.unit = unit, !.load_type = load_type,
                     !.added_weight = Null]

\* the parsers a call is made with: none, one that raises, and ones with a fixed reply
LlmParsers ==
    { None,
      Some([raises |-> TRUE, reply |-> <<>>]),
      Some([raises |-> FALSE, reply |-> <<>>]),
      Some([raises |-> FALSE,
            reply |-> << <<Some("2024-01-15"),
                           << <<"Bench Press", <<LlmSet(Num(135), Num(5), Str("lb"), Str("weighted"))>> >> >> >> >>]),
      Some([raises |-> FALSE,
            reply |-> << <<None,
                           << <<"Squat", <<LlmSet(Null, Num(5), Null, Str("weighted"))>> >> >> >> >>]),
      Some([raises |-> FALSE,
            reply |-> << <<None,
                           << <<"Bench Press", <<LlmSet(Num(135), Num(5), Str("lb"), Str("weighted"))>> >> >> >>,
                         <<Some("2024-01-16"),
                           << <<"Squat", <<LlmSet(Num(225), Num(3), Str("lb"), Str("weighted"))>> >> >> >> >>]) }

Hints == {None, Some("2024-01-15")}
Strictness == {"normal", "strict"}

OptionsOf(llm) ==
    {None} \cup {Some([session_date_hint |-> h, allow_llm |-> a, strictness |-> st]) :
                    h \in Hints, a \in llm, st \in Strictness}

\* the callers: an anonymous one, and one that names itself and its app
Clients ==
    {[user_id |-> None, default_unit |-> "lb", app |-> None],
     [user_id |-> Some("u1"), default_unit |-> "kg", app |-> Some("hevy")]}
Anonymous == [user_id |-> None, default_unit |-> "lb", app |-> None]

Payload(client, content_type, content, options) ==
    [user_id |-> client.user_id, default_unit |-> client.default_unit, content_type |-> content_type,
     content |-> content, app |-> client.app, options |-> options]

NoContent == [csv |-> Csv(<<>>, <<>>), json |-> <<"invalid">>, text |-> <<>>]

\* <<payload, llm_parser>>
Calls ==
    {<<Payload(u, "csv", [NoContent EXCEPT !.csv = c], o), None>> :
        u \in Clients, c \in CsvContents, o \in OptionsOf({FALSE})}
    \cup {<<Payload(Anonymous, "json", [NoContent EXCEPT !.json = c], o), None>> :
            c \in JsonContents, o \in OptionsOf({FALSE})}
    \cup {<<Payload(Anonymous, "text", [NoContent EXCEPT !.text = c], o), None>> :
            c \in TextContents, o \in OptionsOf(BOOLEAN)}
    \cup {<<Payload(Anonymous, "text", [NoContent EXCEPT !.text = <<"Bench Press 135x5">>], o), l>> :
            o \in OptionsOf(BOOLEAN), l \in LlmParsers}

NumSeeds == 2
Seeds == 1..NumSeeds

(***************************************************************************)
(* metrics.py.  A payload's session list is given run-length encoded: a    *)
(* group [n, date, exercises] stands for n sessions with that date and     *)
(* those exercises in a row, and within an exercise [n, set] for n equal   *)
(* sets in a row.  A date is an Optional str, a set a dict as in           *)
(* normalize_set.  The logs form of the payload flattens to the same list. *)
(* Of the output, the rep ranges of the exercise summaries are left out.   *)
(***************************************************************************)
MAX_SESSIONS == 500
MAX_SETS == 10000

in_range(date_str, start, end) == StrLeq(start, date_str) /\ StrLeq(date_str, end)

\* date.toordinal() and its inverse over the days before it
DaysBeforeYear(y) == 365 * (y - 1) + ((y - 1) \div 4) - ((y - 1) \div 100) + ((y - 1) \div 400)
DaysBeforeMonth(y, m) == SumSeq([i \in 1..(m - 1) |-> DaysInMonth(y, i)])
ToOrdinal(ymd) == DaysBeforeYear(ymd[1]) + DaysBeforeMonth(ymd[1], ymd[2]) + ymd[3]

PrevDay(ymd) ==
    IF ymd[3] > 1 THEN <<ymd[1], ymd[2], ymd[3] - 1>>
    ELSE IF ymd[2] > 1 THEN <<ymd[1], ymd[2] - 1, DaysInMonth(ymd[1], ymd[2] - 1)>>
    ELSE <<ymd[1] - 1, 12, 31>>

RECURSIVE MinusDays(_, _)
MinusDays(ymd, k) == IF k = 0 THEN ymd ELSE MinusDays(PrevDay(ymd), k - 1)

\* _week_start(date_str): Ok(the Monday) or the ValueError of strptime
week_start(date_str) ==
    Let(TryFormat(date_str, "-", <<"Y", "m", "d">>), LAMBDA d :
        IF IsNone(d) THEN Raise("ValueError")
        ELSE Ok(FormatIso(MinusDays(Val(d), (ToOrdinal(Val(d)) + 6) % 7))))

\* _is_hard_set(set_type), set_type a str or None
is_hard_set(set_type) ==
    IF IsNull(set_type) THEN TRUE ELSE Lower(set_type[2]) \in {"working", "top", "backoff"}

HasDate(g) == ~IsNone(g.date) /\ Val(g.date) # ""
GroupSets(g) == SumSeq([j \in 1..Len(g.exercises) |->
                          SumSeq([k \in 1..Len(g.exercises[j].sets) |-> g.exercises[j].sets[k].n])])

\* raw.extend(...) over the rows of payload.logs, a row being its canonical_json.sessions
RECURSIVE Concat(_)
Concat(rows) == IF rows = <<>> THEN <<>> ELSE Head(rows) \o Concat(Tail(rows))

\* the range of the output: the caller's, or from the first to the last date kept
sessions_range(payload, filtered) ==
    IF ~IsNone(payload.range) THEN Val(payload.range)
    ELSE IF filtered = <<>> THEN [start |-> "1970-01-01", end |-> "1970-01-01"]
    ELSE Let(SortStrs({Val(filtered[i].date) : i \in 1..Len(filtered)}), LAMBDA dates :
             [start |-> dates[1], end |-> dates[Len(dates)]])

\* _normalize_sessions_from_input(payload): the sessions kept, the range, the set count
normalize_sessions_from_input(payload) ==
    Let(IF payload.sessions # <<>> THEN payload.sessions ELSE Concat(payload.logs), LAMBDA raw :
    Let(IF ~IsNone(payload.range)
        THEN SelectSeq(raw, LAMBDA g : HasDate(g) /\ in_range(Val(g.date), Val(payload.range).start,
                                                               Val(payload.range).end))
        ELSE SelectSeq(raw, LAMBDA g : HasDate(g)),
        LAMBDA filtered :
        [sessions |-> filtered, range |-> sessions_range(payload, filtered),
         total_sets |-> SumSeq([i \in 1..Len(filtered) |-> filtered[i].n * GroupSets(filtered[i])])]))

\* len(sessions), over the run-length encoding
SessionCount(groups) == SumSeq([i \in 1..Len(groups) |-> groups[i].n])

\* a guardrail that already refuses a payload at the cap
payload_too_large_at_cap(n_sessions, total_sets) ==
    IF n_sessions >= MAX_SESSIONS THEN Some("sessions")
    ELSE IF total_sets >= MAX_SETS THEN Some("sets")
    ELSE None

\* Guardrails: the location of the payload_too_large issue, or None
payload_too_large(n_sessions, total_sets) ==
    IF n_sessions > MAX_SESSIONS THEN Some("sessions")
    ELSE IF total_sets > MAX_SETS THEN Some("sets")
    ELSE None

(***************************************************************************)
(* e1rm.  A weight is a whole number of thousandths, an estimate a whole   *)
(* number of hundredths; the value before rounding is the fraction         *)
(* <<numerator, denominator>> of thousandths.                              *)
(***************************************************************************)
\* round(n / d) to the nearest whole number, a tie to the even one, d # 0
RoundHalfEven(n, d) ==
    Let2(IF d < 0 THEN 0 - n ELSE n, IF d < 0 THEN 0 - d ELSE d, LAMBDA a, b :
    Let2(a \div b, a % b, LAMBDA q, r :
         IF 2 * r < b THEN q
         ELSE IF 2 * r > b THEN q + 1
         ELSE IF q % 2 = 0 THEN q ELSE q + 1))

\* an Epley estimate without the case of one rep
e1rm_epley_unguarded(weight, reps) ==
    IF reps <= 0 THEN Ok(<<0, 1>>)
    ELSE Ok(<<weight * (30 + reps), 30>>)

\* e1rm_epley(weight, reps): weight * (1 + reps / 30)
e1rm_epley(weight, reps) ==
    IF reps <= 0 THEN Ok(<<0, 1>>)
    ELSE IF reps = 1 THEN Ok(<<weight, 1>>)
    ELSE Ok(<<weight * (30 + reps), 30>>)

\* e1rm_brzycki(weight, reps): weight * (36 / (37 - reps)), a float division
e1rm_brzycki(weight, reps) ==
    IF reps <= 0 THEN Ok(<<0, 1>>)
    ELSE IF reps = 1 THEN Ok(<<weight, 1>>)
    ELSE IF 37 - reps = 0 THEN Raise("ZeroDivisionError")
    ELSE Ok(<<weight * 36, 37 - reps>>)

\* e1rm(weight, reps, formula): round(..., 2), in hundredths
e1rm(weight, reps, formula) ==
    Bind(IF formula = "brzycki" THEN e1rm_brzycki(weight, reps) ELSE e1rm_epley(weight, reps),
         LAMBDA f : Ok(RoundHalfEven(f[1], 10 * f[2])))

\* e1 of a set: None for a bodyweight set, the estimate from the added load of
\* a bodyweight_plus set, else the estimate from the weight, None without one;
\* the loads are whole numbers, the estimate is in hundredths
set_e1(load_type, weight, added, reps, formula) ==
    IF load_type = "bodyweight" THEN Ok(None)
    ELSE IF load_type = "bodyweight_plus" /\ ~IsNone(added)
    THEN Bind(e1rm(1000 * Val(added), reps, formula), LAMBDA e : Ok(Some(e)))
    ELSE IF ~IsNone(weight)
    THEN Bind(e1rm(1000 * Val(weight), reps, formula), LAMBDA e : Ok(Some(e)))
    ELSE Ok(None)

\* the flattening of one set dict: Ok(the tuple kept for it) or the exception
flatten_set(s, formula) ==
    Let(PyOr(s.load_type, Str("weighted")), LAMBDA ltv :
        IF ~IsStr(ltv) THEN Raise("AttributeError")
        ELSE Bind(ToNum(GetOr(s.reps, Num(0))), LAMBDA reps :
             Bind(OptNum(s.weight), LAMBDA weight :
             Bind(IF IsDict(s.added_load)
                  THEN Bind(ToNum(GetOr(s.added_load[2], Num(0))), LAMBDA n : Ok(Some(n)))
                  ELSE OptNum(s.added_weight),
                  LAMBDA added :
             Let(Let(Lower(Strip(ltv[2])), LAMBDA lt : IF lt \in LoadTypes THEN lt ELSE "weighted"),
                 LAMBDA load_type :
             Bind(set_e1(load_type, weight, added, reps, formula), LAMBDA e1 :
                  Ok([weight |-> weight, unit |-> PyOr(s.unit, Str("lb"))[2], reps |-> reps,
                      set_type |-> s.set_type,
                      e1 |-> e1,
                      load_type |-> load_type,
                      added_weight |-> added,
                      added_unit |-> (IF IsDict(s.added_load)
                                      THEN PyOr(s.added_load[3], Str("lb"))
                                      ELSE PyOr(s.added_weight_unit, Str("lb")))[2]])))))))

Tonnage(lb, kg, excluded, unknown) ==
    [tonnage_lb |-> lb, tonnage_kg |-> kg, tonnage_excluded_sets |-> excluded,
     tonnage_unknown_sets |-> unknown]

\* a tonnage that books every load under lb
set_tonnage_one_unit(t) ==
    IF t.load_type = "bodyweight" THEN Tonnage(0, 0, 1, 0)
    ELSE IF t.load_type = "bodyweight_plus" /\ ~IsNone(t.added_weight)
    THEN Tonnage(Val(t.added_weight) * t.reps, 0, 0, 0)
    ELSE IF t.load_type = "weighted" /\ ~IsNone(t.weight)
    THEN Tonnage(Val(t.weight) * t.reps, 0, 0, 0)
    ELSE Tonnage(0, 0, 0, 1)

\* Tonnage: what one flattened set adds to its week
set_tonnage(t) ==
    IF t.load_type = "bodyweight" THEN Tonnage(0, 0, 1, 0)
    ELSE IF t.load_type = "bodyweight_plus" /\ ~IsNone(t.added_weight)
    THEN (IF t.added_unit = "lb" THEN Tonnage(Val(t.added_weight) * t.reps, 0, 0, 0)
          ELSE Tonnage(0, Val(t.added_weight) * t.reps, 0, 0))
    ELSE IF t.load_type = "weighted"
    THEN (IF ~IsNone(t.weight)
          THEN (IF t.unit = "lb" THEN Tonnage(Val(t.weight) * t.reps, 0, 0, 0)
                ELSE Tonnage(0, Val(t.weight) * t.reps, 0, 0))
          ELSE Tonnage(0, 0, 0, 1))
    ELSE Tonnage(0, 0, 0, 1)

\* the sets of the kept sessions, flattened: Ok(a sequence of [date, ex_id, n, t]) or
\* the first exception; n is the number of equal sets the entry stands for
RECURSIVE flatten_sets(_, _, _, _, _)
flatten_sets(date, ex_id, n, sets, formula) ==
    IF sets = <<>> THEN Ok(<<>>)
    ELSE Bind(flatten_set(Head(sets).set, formula), LAMBDA h :
         Bind(flatten_sets(date, ex_id, n, Tail(sets), formula), LAMBDA t :
              Ok(<<[date |-> date, ex_id |-> ex_id, n |-> n * Head(sets).n, t |-> h]>> \o t)))

RECURSIVE flatten_exercises(_, _, _, _)
flatten_exercises(date, n, exercises, formula) ==
    IF exercises = <<>> THEN Ok(<<>>)
    ELSE Bind(flatten_sets(date, Head(exercises).exercise_id, n, Head(exercises).sets, formula),
              LAMBDA h :
         Bind(flatten_exercises(date, n, Tail(exercises), formula), LAMBDA t : Ok(h \o t)))

RECURSIVE flatten_sessions(_, _)
flatten_sessions(groups, formula) ==
    IF groups = <<>> THEN Ok(<<>>)
    ELSE Bind(flatten_exercises(Val(Head(groups).date), Head(groups).n, Head(groups).exercises,
                                formula),
              LAMBDA h :
         Bind(flatten_sessions(Tail(groups), formula), LAMBDA t : Ok(h \o t)))

\* sets_by_date_ex.items(): the flattened sets in the order of the dict, the
\* sets of a "date|exercise" key together at the place of the key's first set
RECURSIVE by_date_ex(_)
by_date_ex(flat) ==
    IF flat = <<>> THEN <<>>
    ELSE SelectSeq(flat, LAMBDA e : e.date = Head(flat).date /\ e.ex_id = Head(flat).ex_id)
         \o by_date_ex(SelectSeq(flat, LAMBDA e : ~(e.date = Head(flat).date
                                                     /\ e.ex_id = Head(flat).ex_id)))

\* ex_data.keys(): the exercise ids in the order of their first set
RECURSIVE ex_order(_)
ex_order(entries) ==
    IF entries = <<>> THEN <<>>
    ELSE <<Head(entries).ex_id>>
         \o ex_order(SelectSeq(entries, LAMBDA e : e.ex_id # Head(entries).ex_id))

\* `if e1`: an estimate that is neither None nor 0
TruthyE1(e1) == ~IsNone(e1) /\ Val(e1) # 0

\* the largest member of a non-empty set of numbers
MaxOf(S) == CHOOSE x \in S : \A y \in S : y <= x

\* ex_data[ex_id]["best_e1rm"] at the end of the loop
best_e1rm(entries, ex_id) ==
    Let({Val(entries[i].t.e1) : i \in {j \in 1..Len(entries) :
                                         entries[j].ex_id = ex_id /\ TruthyE1(entries[j].t.e1)}},
        LAMBDA S : IF S = {} THEN None ELSE Some(MaxOf(S)))

\* e1rm_pr_per_ex.get(ex_id) at the end of the loop
e1rm_pr(entries, ex_id) ==
    Let({Val(entries[i].t.e1) : i \in {j \in 1..Len(entries) :
                                         entries[j].ex_id = ex_id /\ TruthyE1(entries[j].t.e1)
                                         /\ Val(entries[j].t.e1) > 0}},
        LAMBDA S : IF S = {} THEN None ELSE Some(MaxOf(S)))

TopSetRecord(exercise_id, weight, unit, reps, e1rm_, date) ==
    [exercise_id |-> exercise_id, weight |-> weight, unit |-> unit, reps |-> reps,
     e1rm |-> e1rm_, date |-> date]
PRRecord(exercise_id, kind, weight, unit, reps, e1rm_, date) ==
    [exercise_id |-> exercise_id, kind |-> kind, weight |-> weight, unit |-> unit, reps |-> reps,
     e1rm |-> e1rm_, date |-> date]

\* `if weight is not None: ... elif load_type == "bodyweight_plus" and added_weight
\* is not None: ...`: the sets appended to best_sets
has_display_weight(t) ==
    ~IsNone(t.weight) \/ (t.load_type = "bodyweight_plus" /\ ~IsNone(t.added_weight))

\* ex_data[ex_id]["best_sets"]: n equal entries (date, weight, unit, reps, e1) each
best_sets(entries, ex_id) ==
    Let(SelectSeq(entries, LAMBDA e : e.ex_id = ex_id /\ has_display_weight(e.t)), LAMBDA mine :
        [i \in 1..Len(mine) |->
            [n |-> mine[i].n, date |-> mine[i].date,
             weight |-> IF ~IsNone(mine[i].t.weight) THEN Val(mine[i].t.weight)
                        ELSE Val(mine[i].t.added_weight),
             unit |-> IF ~IsNone(mine[i].t.weight) THEN mine[i].t.unit ELSE mine[i].t.added_unit,
             reps |-> mine[i].t.reps, e1 |-> mine[i].t.e1]])

\* the best sets of an exercise that fall in a week
week_best_sets(entries, ex_id, week) ==
    SelectSeq(best_sets(entries, ex_id), LAMBDA b : week_start(b.date).v = week)

\* top_sets_list of a week: n equal TopSetRecords per entry, by exercise
week_top_sets(entries, ids, week) ==
    Concat([k \in 1..Len(ids) |->
              Let(week_best_sets(entries, ids[k], week), LAMBDA mine :
                  [i \in 1..Len(mine) |->
                      [n |-> mine[i].n,
                       set |-> TopSetRecord(ids[k], mine[i].weight, mine[i].unit, mine[i].reps,
                                            mine[i].e1, mine[i].date)]])])

\* a prs_list that goes on after its first record of an exercise
week_prs_no_break(entries, ids, week) ==
    Concat([k \in 1..Len(ids) |->
              Let(e1rm_pr(entries, ids[k]), LAMBDA pr :
                  IF IsNone(pr) THEN <<>>
                  ELSE Let(SelectSeq(week_best_sets(entries, ids[k], week), LAMBDA b : b.e1 = pr),
                           LAMBDA hits :
                           [i \in 1..Len(hits) |->
                               PRRecord(ids[k], "e1rm_pr", hits[i].weight, hits[i].unit,
                                        hits[i].reps, hits[i].e1, hits[i].date)]))])

\* prs_list of a week: per exercise the first best set of the week at the
\* exercise's e1rm PR, then `break`
week_prs(entries, ids, week) ==
    Concat([k \in 1..Len(ids) |->
              Let(e1rm_pr(entries, ids[k]), LAMBDA pr :
                  IF IsNone(pr) THEN <<>>
                  ELSE Let(SelectSeq(week_best_sets(entries, ids[k], week), LAMBDA b : b.e1 = pr),
                           LAMBDA hits :
                           IF hits = <<>> THEN <<>>
                           ELSE <<PRRecord(ids[k], "e1rm_pr", hits[1].weight, hits[1].unit,
                                           hits[1].reps, hits[1].e1, hits[1].date)>>))])

\* the totals of a week over the flattened sets
WeekTotals(entries, week) ==
    Let(SelectSeq(entries, LAMBDA e : week_start(e.date).v = week), LAMBDA mine :
    Let([i \in 1..Len(mine) |-> set_tonnage(mine[i].t)], LAMBDA ton :
        [week_start |-> week,
         sessions |-> Cardinality({mine[i].date : i \in 1..Len(mine)}),
         hard_sets |-> SumSeq([i \in 1..Len(mine) |->
                                 IF is_hard_set(mine[i].t.set_type) THEN mine[i].n ELSE 0]),
         tonnage_lb |-> SumSeq([i \in 1..Len(mine) |-> mine[i].n * ton[i].tonnage_lb]),
         tonnage_kg |-> SumSeq([i \in 1..Len(mine) |-> mine[i].n * ton[i].tonnage_kg]),
         tonnage_excluded_sets |->
             SumSeq([i \in 1..Len(mine) |-> mine[i].n * ton[i].tonnage_excluded_sets]),
         tonnage_unknown_sets |->
             SumSeq([i \in 1..Len(mine) |-> mine[i].n * ton[i].tonnage_unknown_sets])]))

\* flags that also compare the hard sets with a previous count of zero
volume_flags_from_zero(w, prev_hard_sets, prev_tonnage_lb, prev_tonnage_kg) ==
    (IF ~IsNone(prev_hard_sets) /\ 4 * w.hard_sets > 5 * Val(prev_hard_sets)
     THEN <<"volume_spike">> ELSE <<>>)
    \o (IF ~IsNone(prev_tonnage_lb) /\ Val(prev_tonnage_lb) > 0 /\ w.tonnage_lb # 0
           /\ 4 * w.tonnage_lb > 5 * Val(prev_tonnage_lb)
        THEN <<"volume_spike">> ELSE <<>>)
    \o (IF ~IsNone(prev_tonnage_kg) /\ Val(prev_tonnage_kg) > 0 /\ w.tonnage_kg # 0
           /\ 4 * w.tonnage_kg > 5 * Val(prev_tonnage_kg)
        THEN <<"volume_spike">> ELSE <<>>)

\* if prev_... and prev > 0 and cur > prev * 1.25: the flags a week's totals raise
volume_flags(w, prev_hard_sets, prev_tonnage_lb, prev_tonnage_kg) ==
    (IF ~IsNone(prev_hard_sets) /\ Val(prev_hard_sets) > 0
        /\ 4 * w.hard_sets > 5 * Val(prev_hard_sets)
     THEN <<"volume_spike">> ELSE <<>>)
    \o (IF ~IsNone(prev_tonnage_lb) /\ Val(prev_tonnage_lb) > 0 /\ w.tonnage_lb # 0
           /\ 4 * w.tonnage_lb > 5 * Val(prev_tonnage_lb)
        THEN <<"volume_spike">> ELSE <<>>)
    \o (IF ~IsNone(prev_tonnage_kg) /\ Val(prev_tonnage_kg) > 0 /\ w.tonnage_kg # 0
           /\ 4 * w.tonnage_kg > 5 * Val(prev_tonnage_kg)
        THEN <<"volume_spike">> ELSE <<>>)

\* the loop over the sorted weeks: the WeeklyMetrics, with the volume spike
\* flags and, under include_prs, the top sets and the PRs
RECURSIVE weekly_out(_, _, _, _, _, _)
weekly_out(entries, weeks, prev_hard_sets, prev_tonnage_lb, prev_tonnage_kg, include_prs) ==
    IF weeks = <<>> THEN <<>>
    ELSE Let(WeekTotals(entries, Head(weeks)), LAMBDA w :
             <<[w EXCEPT !.tonnage_lb = IF @ # 0 THEN Some(@) ELSE None,
                         !.tonnage_kg = IF @ # 0 THEN Some(@) ELSE None]
               @@ [flags |-> volume_flags(w, prev_hard_sets, prev_tonnage_lb, prev_tonnage_kg),
                   top_sets |-> IF include_prs
                                THEN week_top_sets(entries, ex_order(entries), Head(weeks))
                                ELSE <<>>,
                   prs |-> IF include_prs
                           THEN week_prs(entries, ex_order(entries), Head(weeks))
                           ELSE <<>>]>>
             \o weekly_out(entries, Tail(weeks), Some(w.hard_sets),
                           IF w.tonnage_lb # 0 THEN Some(w.tonnage_lb) ELSE prev_tonnage_lb,
                           IF w.tonnage_kg # 0 THEN Some(w.tonnage_kg) ELSE prev_tonnage_kg,
                           include_prs))

\* the per-exercise list, sorted by exercise id
exercise_summaries(entries) ==
    Let(SortStrs({entries[i].ex_id : i \in 1..Len(entries)}), LAMBDA ids :
        [k \in 1..Len(ids) |->
            Let(SelectSeq(entries, LAMBDA e : e.ex_id = ids[k]), LAMBDA mine :
                [exercise_id |-> ids[k],
                 sessions |-> Cardinality({mine[i].date : i \in 1..Len(mine)}),
                 best_e1rm |-> best_e1rm(mine, ids[k]),
                 total_hard_sets |-> SumSeq([i \in 1..Len(mine) |->
                                               IF is_hard_set(mine[i].t.set_type)
                                               THEN mine[i].n ELSE 0])])])

ComputeMetricsOutput(status, range, weekly, summaries, issues) ==
    [status |-> status, range |-> range, weekly |-> weekly, exercise_summaries |-> summaries,
     issues |-> issues]

ComputeMetricsOptions(e1rm_formula, include_prs) ==
    [e1rm_formula |-> e1rm_formula, include_prs |-> include_prs]

\* payload.options or ComputeMetricsOptions()
metrics_options(payload) ==
    IF IsNone(payload.options) THEN ComputeMetricsOptions("epley", TRUE) ELSE Val(payload.options)

\* compute_metrics_impl(payload): Ok(the output) or the exception
compute_metrics_impl(payload) ==
    Let(normalize_sessions_from_input(payload), LAMBDA norm :
    Let(payload_too_large(SessionCount(norm.sessions), norm.total_sets), LAMBDA large :
        IF ~IsNone(large)
        THEN Ok(ComputeMetricsOutput("needs_clarification", norm.range, <<>>, <<>>,
                                     <<IssueRecord("blocking", "payload_too_large", Val(large), None)>>))
        ELSE IF norm.sessions = <<>> THEN Ok(ComputeMetricsOutput("ok", norm.range, <<>>, <<>>, <<>>))
        ELSE Bind(flatten_sessions(norm.sessions, metrics_options(payload).e1rm_formula),
                  LAMBDA sets :
             Let(by_date_ex(sets), LAMBDA flat :
             Let([i \in 1..Len(flat) |-> week_start(flat[i].date)], LAMBDA ws :
                 IF \E i \in 1..Len(flat) : ~ws[i].ok THEN Raise("ValueError")
                 ELSE Ok(ComputeMetricsOutput(
                             "ok", norm.range,
                             weekly_out(flat, SortStrs({ws[i].v : i \in 1..Len(flat)}),
                                        None, None, None, metrics_options(payload).include_prs),
                             exercise_summaries(flat), <<>>)))))))

(***************************************************************************)
(* Initial state: the process has just imported the package.               *)
(***************************************************************************)
Init ==
    /\ fs \in {[registry |-> rf, packs |-> SamplePacks] : rf \in RegistryFiles}
    /\ cache = EmptyCache
    /\ op = "idle"
    /\ arg = <<>>
    /\ res = <<>>
    /\ prev = <<>>

(***************************************************************************)
(* Resolver calls                                                          *)
(***************************************************************************)
RawNames ==
    { "Bench Press", " bench press ", "BENCH", "Incline Bench Press",
      "Incline Barbell Bench Press", "incline bench", "benc", "Pull Ups",
      "Hip Thrust", "goblet", "Bench Press (Barbell)", "Squat", "Squatz",
      "Obscure-Lift  XYZ!", "", "  " }

ResolveSources == {None} \cup {Some(s) : s \in Sources}

Resolve(raw, source) ==
    LET out == resolve_exercise(cache, fs, raw, source) IN
    /\ op' = "resolve"
    /\ arg' = <<raw, source>>
    /\ res' = out.r
    /\ cache' = out.cache
    /\ UNCHANGED <<fs, prev>>

NextResolve == \E raw \in RawNames, source \in ResolveSources : Resolve(raw, source)

SpecResolve == Init /\ [][NextResolve]_vars

(***************************************************************************)
(* ingest_log: a call, the same call made again, and the reply handed back *)
(***************************************************************************)
Ingest(call, seed) ==
    LET r == ingest_log_impl(cache, fs, call[1], call[2], seed) IN
    /\ op = "idle"
    /\ op' = "ingest"
    /\ arg' = call
    /\ res' = r.out
    /\ prev' = <<>>
    /\ cache' = r.cache
    /\ UNCHANGED fs

IngestAgain(seed) ==
    LET r == ingest_log_impl(cache, fs, arg[1], arg[2], seed) IN
    /\ op = "ingest"
    /\ op' = "again"
    /\ prev' = res
    /\ res' = r.out
    /\ cache' = r.cache
    /\ UNCHANGED <<fs, arg>>

Return ==
    /\ op \in {"ingest", "again", "metrics", "e1rm", "SetRecord", "normalize_set", "parse_csv", "parse_text"}
    /\ op' = "idle"
    /\ arg' = <<>>
    /\ res' = <<>>
    /\ prev' = <<>>
    /\ UNCHANGED <<fs, cache>>

NextIngest ==
    \/ \E call \in Calls, seed \in Seeds : Ingest(call, seed)
    \/ \E seed \in Seeds : IngestAgain(seed)
    \/ Return

SpecIngest == Init /\ [][NextIngest]_vars

(***************************************************************************)
(* compute_metrics calls.  A payload lists its sessions run-length         *)
(* encoded: a group [n, date, exercises] stands for n sessions of that     *)
(* date and those exercises, an entry [n, set] for n equal set dicts.      *)
(***************************************************************************)
Sets(n, set) == [n |-> n, set |-> set]
Exercise(exercise_id, sets) == [exercise_id |-> exercise_id, sets |-> sets]
Sessions(n, date, exercises) == [n |-> n, date |-> date, exercises |-> exercises]

Weighted(weight, unit, reps, set_type) ==
    [EmptySet EXCEPT !.load_type = Str("weighted"), !.weight = weight, !.unit = unit,
                     !.reps = reps, !.set_type = set_type]
Bodyweight(reps) ==
    [EmptySet EXCEPT !.load_type = Str("bodyweight"), !.weight = Null, !.unit = Null, !.reps = reps]
BodyweightPlus(value, unit, reps) ==
    [EmptySet EXCEPT !.load_type = Str("bodyweight_plus"), !.weight = Null, !.unit = Null,
                     !.reps = reps, !.added_load = <<"dict", value, unit>>]
Assisted(reps) ==
    [EmptySet EXCEPT !.load_type = Str("assisted"), !.weight = Null, !.unit = Null, !.reps = reps]

MetricsExercises ==
    { <<Exercise("barbell_bench_press", <<Sets(2, Weighted(Num(100), Str("lb"), Num(5), Null))>>)>>,
      <<Exercise("barbell_bench_press", <<Sets(2, Weighted(Num(200), Str("lb"), Num(5), Str("working")))>>)>>,
      <<Exercise("barbell_bench_press", <<Sets(1, Weighted(Num(135), Str("lb"), Num(5), Null))>>),
        Exercise("pull_up", <<Sets(1, Bodyweight(Num(10))), Sets(1, BodyweightPlus(Num(25), Str("lb"), Num(6)))>>)>>,
      <<Exercise("back_squat", <<Sets(1, Weighted(Num(40), Str("kg"), Num(5), Str("warmup"))),
                                 Sets(3, Weighted(Num(80), Str("kg"), Num(5), Str("top")))>>),
        Exercise("dip", <<Sets(1, BodyweightPlus(Num(10), Str("kg"), Num(8)))>>)>>,
      <<Exercise("pull_up", <<Sets(3, Bodyweight(Num(8)))>>)>>,
      <<Exercise("pull_up", <<Sets(1, Assisted(Num(8))), Sets(1, Weighted(Null, Null, Num(5), Null))>>),
        Exercise("back_squat", <<Sets(1, [EmptySet EXCEPT !.weight = Str("60"), !.unit = Str("lb"),
                                                          !.reps = Str("5")])>>)>>,
      <<Exercise("back_squat", <<Sets(1, Weighted(Num(60), Str("kg"), Str("five"), Null))>>)>>,
      <<Exercise("barbell_bench_press", <<Sets(1, Weighted(Num(45), Str("lb"), Num(10), Str("warmup"))),
                                          Sets(1, Weighted(Num(100), Str("lb"), Num(5), Str("Working"))),
                                          Sets(2, Weighted(Num(80), Str("lb"), Num(8), Str("drop"))),
                                          Sets(1, Weighted(Num(90), Str("lb"), Num(5), Str("backoff")))>>)>>,
      <<Exercise("back_squat", <<Sets(2, Weighted(Num(40), Str("kg"), Num(5), Str("warmup")))>>)>>,
      <<Exercise("barbell_bench_press", <<Sets(1, Weighted(Num(100), Str("lb"), Num(0), Null))>>)>>,
      <<Exercise("pull_up", <<Sets(1, [Bodyweight(Num(10)) EXCEPT !.weight = Num(180), !.unit = Str("lb")]),
                              Sets(1, [Assisted(Num(8)) EXCEPT !.weight = Num(40), !.unit = Str("lb")])>>)>>,
      <<Exercise("leg_press", <<Sets(2, [Weighted(Num(100), Str("kg"), Num(10), Null) EXCEPT
                                           !.load_type = Str("machine")]),
                                Sets(1, [Weighted(Null, Null, Num(10), Null) EXCEPT
                                           !.load_type = Str("machine")])>>)>>,
      <<Exercise("unmapped:sled", <<>>)>>,
      <<>> }

MetricsDates ==
    {None, Some(""), Some("2023-12-25"), Some("2024-01-01"), Some("2024-01-03"), Some("2024-01-08"),
     Some("2024-01-14"), Some("2024-1-9"), Some("Jan 9")}

SmallSessions == {Sessions(1, d, e) : d \in MetricsDates, e \in MetricsExercises}

\* groups around the two caps
LargeSessions ==
    {Sessions(n, d, <<Exercise("barbell_bench_press", <<Sets(2, Weighted(Num(100), Str("lb"), Num(5), Null))>>)>>) :
        n \in {MAX_SESSIONS - 1, MAX_SESSIONS, MAX_SESSIONS + 1},
        d \in {None, Some("2023-12-25"), Some("2024-01-01")}}
    \cup {Sessions(1, d, <<Exercise("pull_up", <<Sets(n, Bodyweight(Num(1)))>>)>>) :
            n \in {MAX_SETS - 1, MAX_SETS, MAX_SETS + 1},
            d \in {None, Some("2023-12-25"), Some("2024-01-01")}}

FollowingSessions ==
    { Sessions(1, Some("2024-01-01"), <<Exercise("pull_up", <<Sets(1, Bodyweight(Num(1)))>>)>>),
      Sessions(1, None, <<Exercise("pull_up", <<Sets(1, Bodyweight(Num(1)))>>)>>),
      Sessions(1, Some("2024-01-08"),
               <<Exercise("barbell_bench_press", <<Sets(2, Weighted(Num(200), Str("lb"), Num(5), Null))>>)>>),
      Sessions(1, Some("2024-01-10"),
               <<Exercise("back_squat", <<Sets(2, Weighted(Num(100), Str("kg"), Num(5), Null))>>)>>) }

\* three weeks, the middle one without lb tonnage
ThreeWeeks ==
    {<<Sessions(1, Some("2023-12-25"),
                <<Exercise("barbell_bench_press", <<Sets(2, Weighted(Num(w), Str("lb"), Num(5), Null))>>)>>),
       Sessions(1, Some("2024-01-01"), middle),
       Sessions(1, Some("2024-01-08"),
                <<Exercise("barbell_bench_press", <<Sets(2, Weighted(Num(200), Str("lb"), Num(5), Null))>>)>>)>> :
        w \in {100, 160, 200},
        middle \in {<<Exercise("pull_up", <<Sets(3, Bodyweight(Num(8)))>>)>>,
                    <<Exercise("back_squat", <<Sets(2, Weighted(Num(40), Str("kg"), Num(5), Str("warmup")))>>)>>,
                    <<Exercise("back_squat", <<Sets(2, Weighted(Num(100), Str("kg"), Num(5), Null))>>)>>}}

\* two sessions of one day with a session of another day of the week between them
SplitDay ==
    {<<Sessions(1, Some("2024-01-08"),
                <<Exercise("barbell_bench_press", <<Sets(1, Weighted(Num(135), Str("lb"), Num(5), Null))>>)>>),
       Sessions(1, Some("2024-01-10"),
                <<Exercise("barbell_bench_press", <<Sets(1, Weighted(Num(w), Str("lb"), Num(5), Null))>>)>>),
       Sessions(1, Some("2024-01-08"),
                <<Exercise("barbell_bench_press", <<Sets(1, Weighted(Num(200), Str("lb"), Num(5), Null))>>)>>)>> :
        w \in {135, 200, 225}}

\* two weeks, the second with more sets and more tonnage in both units
SpikeWeeks ==
    {<<Sessions(1, Some("2024-01-01"),
                <<Exercise("barbell_bench_press", <<Sets(1, Weighted(Num(100), Str("lb"), Num(5), Null))>>),
                  Exercise("back_squat", <<Sets(1, Weighted(Num(100), Str("kg"), Num(5), Null))>>)>>),
       Sessions(1, Some("2024-01-08"),
                <<Exercise("barbell_bench_press", <<Sets(2, Weighted(Num(200), Str("lb"), Num(5), Null))>>),
                  Exercise("back_squat", <<Sets(n, Weighted(Num(100), Str("kg"), Num(5), Null))>>)>>)>> :
        n \in {1, 2}}

SessionLists ==
    {<<>>} \cup {<<g>> : g \in SmallSessions \cup LargeSessions}
           \cup {<<g, h>> : g \in SmallSessions \cup LargeSessions, h \in FollowingSessions}
           \cup ThreeWeeks \cup SplitDay \cup SpikeWeeks

DateRange(start, end) == [start |-> start, end |-> end]
MetricsRanges == {None, Some(DateRange("2024-01-01", "2024-01-31"))}

ComputeMetricsInput(sessions, logs, range, options) ==
    [sessions |-> sessions, logs |-> logs, range |-> range, options |-> options]

MetricsOptions ==
    {None, Some(ComputeMetricsOptions("brzycki", TRUE)), Some(ComputeMetricsOptions("epley", FALSE))}

MetricsPayloads ==
    {ComputeMetricsInput(ss, <<>>, r, o) : ss \in SessionLists, r \in MetricsRanges,
                                           o \in MetricsOptions}
    \cup {ComputeMetricsInput(<<>>, <<<<g>>, <<h>>>>, r, None) :
            g \in LargeSessions, h \in FollowingSessions, r \in MetricsRanges}

ComputeMetrics(payload) ==
    /\ op = "idle"
    /\ op' = "metrics"
    /\ arg' = <<payload>>
    /\ res' = compute_metrics_impl(payload)
    /\ prev' = <<>>
    /\ UNCHANGED <<fs, cache>>

NextMetrics ==
    \/ \E payload \in MetricsPayloads : ComputeMetrics(payload)
    \/ Return

SpecMetrics == Init /\ [][NextMetrics]_vars

(***************************************************************************)
(* Two threads in resolve_exercise(raw) at the first use of the registry.  *)
(* Nothing in normalize.py orders the threads, so a step of one may come   *)
(* between any two steps of the other.  Here op, arg, res and prev hold    *)
(* one value per thread: the thread's position, its raw name, its result   *)
(* and the index of the registry entry its loop in _load_registry is at.   *)
(***************************************************************************)
Threads == {"t1", "t2"}
ThreadNames == {"Pull Up", "Hip Thrust", "flat bench", "Squatz", "bench press"}

InitThreads ==
    /\ fs \in {[registry |-> rf, packs |-> SamplePacks] : rf \in RegistryFiles}
    /\ cache = EmptyCache
    /\ op = [t \in Threads |-> "idle"]
    /\ arg = [t \in Threads |-> <<>>]
    /\ res = [t \in Threads |-> <<>>]
    /\ prev = [t \in Threads |-> 0]

\* resolve_exercise(raw) up to step 2: a global alias is answered at once
ThreadCall(t, raw) ==
    /\ op[t] = "idle"
    /\ arg' = [arg EXCEPT ![t] = <<raw>>]
    /\ IF HasKey(EXERCISE_ALIASES, Lower(Strip(raw)))
       THEN /\ res' = [res EXCEPT ![t] = Resolution(Get(EXERCISE_ALIASES, Lower(Strip(raw))),
                                                    Strip(raw), "global_alias", 95)]
            /\ op' = [op EXCEPT ![t] = "done"]
       ELSE /\ res' = res
            /\ op' = [op EXCEPT ![t] = "load_registry"]
    /\ UNCHANGED <<fs, cache, prev>>

\* _load_registry: `if _registry is not None: return _registry`
LoadRegistryEnter(t) ==
    /\ op[t] = "load_registry"
    /\ op' = [op EXCEPT ![t] = IF ~IsNone(cache.registry) THEN "lookup" ELSE "read_file"]
    /\ UNCHANGED <<fs, cache, arg, res, prev>>

\* _load_registry: `_registry = []` without a file, else `_registry = json.load(f)`
LoadRegistryRead(t) ==
    /\ op[t] = "read_file"
    /\ IF IsNone(fs.registry)
       THEN /\ cache' = [cache EXCEPT !.registry = Some(<<>>)]
            /\ op' = [op EXCEPT ![t] = "lookup"]
            /\ prev' = prev
       ELSE /\ cache' = [cache EXCEPT !.registry = fs.registry]
            /\ op' = [op EXCEPT ![t] = "fill"]
            /\ prev' = [prev EXCEPT ![t] = 1]
    /\ UNCHANGED <<fs, arg, res>>

\* _load_registry: one turn of `for entry in _registry`, or the return after the last
LoadRegistryEntry(t) ==
    /\ op[t] = "fill"
    /\ IF prev[t] > Len(Val(fs.registry))
       THEN /\ op' = [op EXCEPT ![t] = "lookup"]
            /\ prev' = [prev EXCEPT ![t] = 0]
            /\ cache' = cache
       ELSE /\ cache' = AddEntry(cache, Val(fs.registry)[prev[t]])
            /\ prev' = [prev EXCEPT ![t] = @ + 1]
            /\ op' = op
    /\ UNCHANGED <<fs, arg, res>>

\* steps 3 to 5 of resolve_exercise, on the indexes as they are now
ThreadLookup(t) ==
    /\ op[t] = "lookup"
    /\ res' = [res EXCEPT ![t] = resolve_in_registry(cache, arg[t][1], Lower(Strip(arg[t][1])),
                                                     Strip(arg[t][1])).r]
    /\ op' = [op EXCEPT ![t] = "done"]
    /\ UNCHANGED <<fs, cache, arg, prev>>

ThreadReturn(t) ==
    /\ op[t] = "done"
    /\ op' = [op EXCEPT ![t] = "idle"]
    /\ arg' = [arg EXCEPT ![t] = <<>>]
    /\ res' = [res EXCEPT ![t] = <<>>]
    /\ UNCHANGED <<fs, cache, prev>>

NextThreads ==
    \/ \E t \in Threads, raw \in ThreadNames : ThreadCall(t, raw)
    \/ \E t \in Threads : LoadRegistryEnter(t)
    \/ \E t \in Threads : LoadRegistryRead(t)
    \/ \E t \in Threads : LoadRegistryEntry(t)
    \/ \E t \in Threads : ThreadLookup(t)
    \/ \E t \in Threads : ThreadReturn(t)

SpecThreads == InitThreads /\ [][NextThreads]_vars

(***************************************************************************)
(* e1rm calls: weights in thousandths, among them weights with three       *)
(* decimals, and reps on both sides of the special cases.  On these inputs *)
(* the float product is either exact or away from a rounding tie, so that  *)
(* round(..., 2) is the rounding of the exact value.                       *)
(***************************************************************************)
E1rmWeights == {0, 125, 2500, 45359, 61234, 100000, 102500, 135000, 225000, 0 - 2500}
E1rmReps == {0 - 3, 0 - 1, 0, 1, 2, 5, 8, 10, 15, 30, 36, 37, 38}
E1rmFormulas == {"epley", "brzycki"}

E1rm(weight, reps, formula) ==
    /\ op = "idle"
    /\ op' = "e1rm"
    /\ arg' = <<weight, reps, formula>>
    /\ res' = e1rm(weight, reps, formula)
    /\ prev' = <<>>
    /\ UNCHANGED <<fs, cache>>

NextE1rm ==
    \/ \E weight \in E1rmWeights, reps \in E1rmReps, formula \in E1rmFormulas :
          E1rm(weight, reps, formula)
    \/ Return

SpecE1rm == Init /\ [][NextE1rm]_vars

(***************************************************************************)
(* SetRecord constructions and normalize_set calls: every load type with   *)
(* and without a weight, a unit and an added load, and raw sets that name  *)
(* their load type in several spellings or not at all.                     *)
(***************************************************************************)
RecordWeights == {None, Some(0), Some(135)}
RecordUnits == {None, Some("lb"), Some("kg")}
RecordAddedLoads == {None, Some([value |-> 25, unit |-> "kg"])}

RawLoadTypes ==
    {Absent, Null, Str("weighted"), Str("bodyweight"), Str("bodyweight_plus"), Str("assisted"),
     Str(" Assisted "), Str("machine")}
RawSets ==
    {[EmptySet EXCEPT !.load_type = lt, !.weight = w, !.unit = u, !.added_weight = a,
                      !.added_load = d, !.reps = Num(5)] :
        lt \in RawLoadTypes, w \in {Absent, Null, Num(135)}, u \in {Absent, Str("kg")},
        a \in {Absent, Num(25)}, d \in {Absent, <<"dict", Num(10), Str("lb")>>}}

NewSetRecord(weight, unit, load_type, added_load) ==
    /\ op = "idle"
    /\ op' = "SetRecord"
    /\ arg' = [weight |-> weight, unit |-> unit, load_type |-> load_type, added_load |-> added_load]
    /\ res' = SetRecord(1, weight, unit, 5, load_type, added_load, None, None)
    /\ prev' = <<>>
    /\ UNCHANGED <<fs, cache>>

NormalizeSet(raw, default_unit) ==
    /\ op = "idle"
    /\ op' = "normalize_set"
    /\ arg' = <<raw, default_unit>>
    /\ res' = normalize_set(raw, 1, default_unit)
    /\ prev' = <<>>
    /\ UNCHANGED <<fs, cache>>

NextSetRecord ==
    \/ \E weight \in RecordWeights, unit \in RecordUnits, load_type \in LoadTypes,
          added_load \in RecordAddedLoads :
          NewSetRecord(weight, unit, load_type, added_load)
    \/ \E raw \in RawSets, default_unit \in {"lb", "kg"} : NormalizeSet(raw, default_unit)
    \/ Return

SpecSetRecord == Init /\ [][NextSetRecord]_vars

(***************************************************************************)
(* parse_csv calls: files of up to MaxCsvRows data lines with a date column *)
(* and of one line more without it.  A line names one of two exercises or  *)
(* none (such a line is not accepted) and, with a date column, one of two  *)
(* dates or none.  The reps cell of a line is its position, so that every  *)
(* accepted row is told apart.                                             *)
(***************************************************************************)
MaxCsvRows == 4
CsvNames == {"Squat", "Bench Press", ""}
CsvDatedLines ==
    {<<"2024-01-15", "Squat">>, <<"2024-01-15", "Bench Press">>, <<"2024-01-16", "Squat">>,
     <<"", "Squat">>, <<"2024-01-15", "">>}
SeqsUpTo(S, n) == UNION {[1..k -> S] : k \in 0..n}
DatedCsvs ==
    {Csv(<<"date", "exercise", "weight", "reps">>,
         [i \in 1..Len(f) |-> <<f[i][1], f[i][2], "100", NumToStr(i)>>]) :
        f \in SeqsUpTo(CsvDatedLines, MaxCsvRows)}
UndatedCsvs ==
    {Csv(<<"exercise", "weight", "reps">>, [i \in 1..Len(f) |-> <<f[i], "100", NumToStr(i)>>]) :
        f \in SeqsUpTo(CsvNames, MaxCsvRows + 1)}

ParseCsv(csv) ==
    /\ op = "idle"
    /\ op' = "parse_csv"
    /\ arg' = csv
    /\ res' = parse_csv(csv)
    /\ prev' = <<>>
    /\ UNCHANGED <<fs, cache>>

NextParseCsv ==
    \/ \E csv \in DatedCsvs \cup UndatedCsvs : ParseCsv(csv)
    \/ Return

SpecParseCsv == Init /\ [][NextParseCsv]_vars

(***************************************************************************)
(* parse_text_fallback calls: texts of up to MaxTextLines lines that name  *)
(* an exercise, hold an "NxM at W" mention, or both.                       *)
(***************************************************************************)
MaxTextLines == 4
TextLineSet ==
    {"squat", "bench press", "3x5 at 225", "0x5 at 225", "Squat 2x3 at 100"}
Texts == SeqsUpTo(TextLineSet, MaxTextLines)

ParseText(lines) ==
    /\ op = "idle"
    /\ op' = "parse_text"
    /\ arg' = lines
    /\ res' = parse_text_fallback(lines)
    /\ prev' = <<>>
    /\ UNCHANGED <<fs, cache>>

NextParseText ==
    \/ \E lines \in Texts : ParseText(lines)
    \/ Return

SpecParseText == Init /\ [][NextParseText]_vars

(***************************************************************************)
(* Properties of ingest_log_impl, checked under SpecIngest                 *)
(***************************************************************************)
Called == op \in {"ingest", "again"}
Replied == Called /\ res.ok
Reply == res.v
CallOptions == default_options(arg[1].options)

BlockingOfType(issues, type) ==
    \E i \in 1..Len(issues) : issues[i].severity = "blocking" /\ issues[i].type = type
WarningOfType(issues, type) ==
    \E i \in 1..Len(issues) : issues[i].severity = "warning" /\ issues[i].type = type

\* C1: a reply that reached canonicalization has status needs_clarification exactly
\* when an issue is blocking, or no exercise or no set was detected, or the
\* confidence is under 0.70, and has status ok otherwise.
C1_StatusRule ==
    (Replied /\ Reply.stage = "canonical") =>
        /\ Reply.status \in {"needs_clarification", "ok"}
        /\ Reply.status = "needs_clarification" <=>
              \/ HasBlocking(Reply.issues)
              \/ Reply.summary.exercises_detected = 0
              \/ Reply.summary.sets_detected = 0
              \/ Reply.summary.confidence < 70

\* C1 witness: a reply sent back for its low confidence alone.
C1_LowConfidenceAlone ==
    /\ Replied /\ Reply.stage = "canonical"
    /\ Reply.status = "needs_clarification"
    /\ ~HasBlocking(Reply.issues)
    /\ Reply.summary.exercises_detected > 0
    /\ Reply.summary.sets_detected > 0
    /\ Reply.summary.confidence < 70

\* C2: every reply, also one to an input from which nothing was parsed, reports a
\* confidence from 0.25 to 1.0.
C2_ConfidenceBounds ==
    Replied => (Reply.summary.confidence >= 25 /\ Reply.summary.confidence <= 100)

\* C3: under strictness strict a reply with a missing_date issue also holds a
\* blocking missing_date issue, has status needs_clarification and no log_id,
\* whatever its confidence; and the valid one-row CSV with a date hint is ok.
C3_StrictMissingDate ==
    /\ (Replied /\ CallOptions.strictness = "strict" /\ HasType(Reply.issues, "missing_date")) =>
          /\ WarningOfType(Reply.issues, "missing_date")
          /\ BlockingOfType(Reply.issues, "missing_date")
          /\ Reply.status = "needs_clarification"
          /\ IsNone(Reply.log_id)
    /\ (/\ Called
        /\ arg[1].content_type = "csv"
        /\ arg[1].content.csv = Csv(<<"exercise", "weight", "reps">>, << <<"Bench Press", "135", "5">> >>)
        /\ ~IsNone(CallOptions.session_date_hint)) =>
          (res.ok /\ Reply.status = "ok")

\* C3 witness: a strict call refused for the missing date though its confidence passes.
C3_StrictRefusedAtHighConfidence ==
    /\ Replied /\ CallOptions.strictness = "strict"
    /\ HasType(Reply.issues, "missing_date")
    /\ Reply.summary.confidence >= 70
    /\ Reply.summary.sets_detected > 0
    /\ Reply.status = "needs_clarification"

\* C4: a reply carries a log_id exactly when its status is ok and its canonical
\* log has a session; needs_clarification and error replies carry none.
C4_LogIdGate ==
    Replied =>
        /\ ~IsNone(Reply.log_id) <=> (Reply.status = "ok" /\ Len(Reply.canonical_log) >= 1)
        /\ Reply.status \in {"needs_clarification", "error"} => IsNone(Reply.log_id)

\* C4 witness: a reply with sessions that is sent back for clarification, without a log_id.
C4_SessionsButNoLogId ==
    /\ Replied /\ Reply.status = "needs_clarification"
    /\ Len(Reply.canonical_log) >= 1 /\ IsNone(Reply.log_id)

\* C5: the same call made twice returns the same canonical log, the same issues,
\* the same confidence and the same canonical_sha256.
C5_Deterministic ==
    (op = "again" /\ res.ok /\ prev.ok) =>
        /\ Reply.canonical_log = prev.v.canonical_log
        /\ Reply.issues = prev.v.issues
        /\ Reply.summary.confidence = prev.v.summary.confidence
        /\ Reply.signature.canonical_sha256 = prev.v.signature.canonical_sha256

\* C6: ingest_log_impl raises nothing to its caller, whatever the content and
\* whatever the parser handed back.
C6_NeverRaises == Called => res.ok

\* C7: when the LLM parser is called and raises, the reply holds a blocking
\* llm_parse_error, has status needs_clarification, an empty canonical log, no
\* log_id and llm_used false.
LlmRaised ==
    /\ Called /\ arg[1].content_type = "text" /\ CallOptions.allow_llm
    /\ ~IsNone(arg[2]) /\ Val(arg[2]).raises

C7_LlmErrorCaptured ==
    LlmRaised =>
        /\ res.ok
        /\ BlockingOfType(Reply.issues, "llm_parse_error")
        /\ Reply.status = "needs_clarification"
        /\ Reply.canonical_log = <<>>
        /\ IsNone(Reply.log_id)
        /\ Reply.meta.llm_used = FALSE

\* C7 witness: a call whose LLM parser raised, answered.
C7_LlmRaisedAndAnswered == LlmRaised /\ res.ok /\ Reply.meta.llm_available

(***************************************************************************)
(* Properties of resolve_exercise, checked under SpecResolve               *)
(***************************************************************************)
ResolvedKey == Lower(Strip(arg[1]))
PackOf(source) ==
    IF ~IsNone(source) /\ Val(source) # "" /\ HasKey(fs.packs, Lower(Strip(Val(source))))
    THEN Get(fs.packs, Lower(Strip(Val(source)))) ELSE <<>>
RegistryOf == IF IsNone(fs.registry) THEN <<>> ELSE Val(fs.registry)

InPack == \E i \in 1..Len(PackOf(arg[2])) : Lower(Strip(PackOf(arg[2])[i][1])) = ResolvedKey
InGlobal == \E i \in 1..Len(EXERCISE_ALIASES) : EXERCISE_ALIASES[i][1] = ResolvedKey
InDisplay == \E i \in 1..Len(RegistryOf) : Lower(Strip(RegistryOf[i].display)) = ResolvedKey
InAlias ==
    \E i \in 1..Len(RegistryOf) : \E j \in 1..Len(RegistryOf[i].aliases) :
        Lower(Strip(RegistryOf[i].aliases[j])) = ResolvedKey

\* C8: resolve_exercise answers with the first of source pack (1.0), global alias
\* (0.95), registry display (0.90), registry alias (0.85) whose keys hold the
\* trimmed, lower-cased name exactly, and otherwise with unmapped, 0.0 and
\* unmapped:<slug>, also for a name that contains or is contained in a known one.
C8_ExactPrecedence ==
    op = "resolve" =>
        /\ <<res.strategy, res.score>> =
              (IF InPack THEN <<"source_pack", 100>>
               ELSE IF InGlobal THEN <<"global_alias", 95>>
               ELSE IF InDisplay THEN <<"registry_display", 90>>
               ELSE IF InAlias THEN <<"registry_alias", 85>>
               ELSE <<"unmapped", 0>>)
        /\ (res.strategy = "unmapped" <=> StartsWith(res.exercise_id, "unmapped:"))
        /\ (res.strategy = "unmapped" => res.exercise_id = "unmapped:" \o slug_exercise(arg[1]))

\* C8 witness: a longer variant of a known alias, resolved to unmapped.
C8_LongerVariantUnmapped ==
    /\ op = "resolve" /\ res.strategy = "unmapped"
    /\ \E i \in 1..Len(EXERCISE_ALIASES) :
          /\ Contains(EXERCISE_ALIASES[i][1], ResolvedKey)
          /\ EXERCISE_ALIASES[i][1] # ResolvedKey


(***************************************************************************)
(* Properties of compute_metrics_impl, checked under SpecMetrics           *)
(***************************************************************************)
MetricsCalled == op = "metrics"
MetricsReplied == MetricsCalled /\ res.ok
MetricsRange == arg[1].range

\* the sessions the payload carries, given directly or inside its logs
PayloadSessions == IF arg[1].sessions # <<>> THEN arg[1].sessions ELSE Concat(arg[1].logs)
\* those of them that have a date, inside the range when the caller gave one
Dated(g) == g.date # None /\ g.date # Some("")
InCallerRange(g) ==
    MetricsRange = None
    \/ (StrLeq(Val(MetricsRange).start, Val(g.date)) /\ StrLeq(Val(g.date), Val(MetricsRange).end))
CountedSessions == SelectSeq(PayloadSessions, LAMBDA g : Dated(g) /\ InCallerRange(g))

NumSessions(groups) == SumSeq([i \in 1..Len(groups) |-> groups[i].n])
NumSets(groups) ==
    SumSeq([i \in 1..Len(groups) |->
              groups[i].n * SumSeq([j \in 1..Len(groups[i].exercises) |->
                                      SumSeq([k \in 1..Len(groups[i].exercises[j].sets) |->
                                                groups[i].exercises[j].sets[k].n])])])

Refused(reply) ==
    /\ reply.status = "needs_clarification"
    /\ BlockingOfType(reply.issues, "payload_too_large")
    /\ reply.weekly = <<>>
    /\ reply.exercise_summaries = <<>>
NoTooLargeIssue(reply) == \A i \in 1..Len(reply.issues) : reply.issues[i].type # "payload_too_large"

LoadTypeOf(s) ==
    IF IsNull(s.load_type) \/ s.load_type[2] \notin LoadTypes THEN "weighted" ELSE s.load_type[2]
LoadIn(s, unit) ==
    IF LoadTypeOf(s) = "weighted" /\ ~IsNull(s.weight) /\ s.unit = Str(unit)
    THEN ToNum(s.weight).v * ToNum(s.reps).v
    ELSE IF LoadTypeOf(s) = "bodyweight_plus" /\ IsDict(s.added_load) /\ s.added_load[3] = Str(unit)
    THEN ToNum(s.added_load[2]).v * ToNum(s.reps).v
    ELSE 0
IsBodyweight(s) == IF LoadTypeOf(s) = "bodyweight" THEN 1 ELSE 0

\* the sum of f over the sets of the counted sessions of a week
WeekSum(week, f(_)) ==
    LET mine == SelectSeq(CountedSessions, LAMBDA g : week_start(Val(g.date)) = Ok(week)) IN
    SumSeq([i \in 1..Len(mine) |->
              mine[i].n * SumSeq([j \in 1..Len(mine[i].exercises) |->
                                    SumSeq([k \in 1..Len(mine[i].exercises[j].sets) |->
                                              mine[i].exercises[j].sets[k].n
                                              * f(mine[i].exercises[j].sets[k].set)])])])
LbLoad(s) == LoadIn(s, "lb")
KgLoad(s) == LoadIn(s, "kg")

NotWarmup(s) == IF s.set_type = Str("warmup") THEN 0 ELSE 1

\* the sum of f over the counted sets of an exercise
ExerciseSum(ex_id, f(_)) ==
    SumSeq([i \in 1..Len(CountedSessions) |->
              CountedSessions[i].n
              * SumSeq([j \in 1..Len(CountedSessions[i].exercises) |->
                          IF CountedSessions[i].exercises[j].exercise_id # ex_id THEN 0
                          ELSE SumSeq([k \in 1..Len(CountedSessions[i].exercises[j].sets) |->
                                         CountedSessions[i].exercises[j].sets[k].n
                                         * f(CountedSessions[i].exercises[j].sets[k].set)])])])

\* C11: every set is counted in its week's hard_sets and in its exercise's
\* total_hard_sets unless its set_type is warmup: a set without set_type and
\* a set with any other set_type value count as hard sets.
C11_AllButWarmupAreHard ==
    MetricsReplied =>
        /\ \A i \in 1..Len(res.v.weekly) :
              res.v.weekly[i].hard_sets = WeekSum(res.v.weekly[i].week_start, NotWarmup)
        /\ \A i \in 1..Len(res.v.exercise_summaries) :
              res.v.exercise_summaries[i].total_hard_sets
                  = ExerciseSum(res.v.exercise_summaries[i].exercise_id, NotWarmup)

\* the weeks of the reply and what the claim compares in them
Weekly == res.v.weekly
Flagged(i) == \E k \in 1..Len(Weekly[i].flags) : Weekly[i].flags[k] = "volume_spike"
TonnageOf(i, unit) ==
    IF unit = "lb" THEN (IF IsNone(Weekly[i].tonnage_lb) THEN 0 ELSE Val(Weekly[i].tonnage_lb))
    ELSE (IF IsNone(Weekly[i].tonnage_kg) THEN 0 ELSE Val(Weekly[i].tonnage_kg))
\* week i's tonnage in the unit exceeds 1.25 times the last non-zero one before it
TonnageSpike(i, unit) ==
    \E j \in 1..(i - 1) :
        /\ TonnageOf(j, unit) # 0
        /\ \A k \in (j + 1)..(i - 1) : TonnageOf(k, unit) = 0
        /\ 4 * TonnageOf(i, unit) > 5 * TonnageOf(j, unit)
AscendingWeeks ==
    \A i \in 1..(Len(Weekly) - 1) :
        StrLeq(Weekly[i].week_start, Weekly[i + 1].week_start)
        /\ Weekly[i].week_start # Weekly[i + 1].week_start

E1rmCalled == op = "e1rm"

\* C13 (as stated): for both formulas and every weight, e1rm(weight, reps,
\* formula) is exactly the weight when reps = 1 and is 0 when reps <= 0.
C13_OneRepIsTheWeight ==
    E1rmCalled =>
        /\ arg[2] = 1 => (res.ok /\ 10 * res.v = arg[1])
        /\ arg[2] <= 0 => (res.ok /\ res.v = 0)

\* C13 (amended): for both formulas and every weight, e1rm(weight, 1,
\* formula) is the weight rounded to 2 decimals, which is the weight itself
\* when the weight has at most 2 decimals, and e1rm is 0 when reps <= 0.
C13_OneRepIsTheRoundedWeight ==
    E1rmCalled =>
        /\ arg[2] = 1 =>
              /\ res.ok
              /\ 2 * (10 * res.v - arg[1]) \in -10..10
              /\ arg[1] % 10 = 0 => 10 * res.v = arg[1]
        /\ arg[2] <= 0 => (res.ok /\ res.v = 0)

\* C13 witness: one rep of a weight with three decimals, under Brzycki
C13_OneRepThreeDecimals ==
    /\ E1rmCalled
    /\ arg[2] = 1 /\ arg[3] = "brzycki"
    /\ arg[1] % 10 # 0
    /\ res.ok /\ 10 * res.v # arg[1]

\* the options of the call
Formula == IF arg[1].options = None THEN "epley" ELSE Val(arg[1].options).e1rm_formula
PrsEnabled == IF arg[1].options = None THEN TRUE ELSE Val(arg[1].options).include_prs

\* the sets of the counted sessions in input order: [date, ex_id, set]
ClaimSets ==
    Concat([i \in 1..Len(CountedSessions) |->
              Concat([j \in 1..Len(CountedSessions[i].exercises) |->
                        [k \in 1..Len(CountedSessions[i].exercises[j].sets) |->
                            [date |-> Val(CountedSessions[i].date),
                             ex_id |-> CountedSessions[i].exercises[j].exercise_id,
                             set |-> CountedSessions[i].exercises[j].sets[k].set]]])])
\* the added load of a set dict, if it has one
HasAdded(s) == IsDict(s.added_load) \/ ~IsNull(s.added_weight)
AddedOf(s) == IF IsDict(s.added_load) THEN ToNum(s.added_load[2]).v ELSE ToNum(s.added_weight).v
AddedUnitOf(s) ==
    IF IsDict(s.added_load) THEN PyOr(s.added_load[3], Str("lb"))[2]
    ELSE PyOr(s.added_weight_unit, Str("lb"))[2]

\* the sets the claims call eligible: weighted with a weight, or bodyweight_plus
EligibleAsStated(s) ==
    (LoadTypeOf(s) = "weighted" /\ ~IsNull(s.weight)) \/ LoadTypeOf(s) = "bodyweight_plus"
\* the sets with a weight to display: a weight, or the added load of a bodyweight_plus set
HasDisplayWeight(s) ==
    ~IsNull(s.weight) \/ (LoadTypeOf(s) = "bodyweight_plus" /\ HasAdded(s))

\* the e1rm of a set dict, None where it has none
SetE1(s) ==
    IF LoadTypeOf(s) = "bodyweight" THEN None
    ELSE IF LoadTypeOf(s) = "bodyweight_plus" /\ HasAdded(s)
    THEN Some(e1rm(1000 * AddedOf(s), ToNum(s.reps).v, Formula).v)
    ELSE IF ~IsNull(s.weight) THEN Some(e1rm(1000 * ToNum(s.weight).v, ToNum(s.reps).v, Formula).v)
    ELSE None

\* the sets of the call with their estimate and week: [date, ex_id, set, e1, week]
RatedSets ==
    LET cs == ClaimSets IN
    [h \in 1..Len(cs) |-> [date |-> cs[h].date, ex_id |-> cs[h].ex_id, set |-> cs[h].set,
                           e1 |-> SetE1(cs[h].set), week |-> week_start(cs[h].date).v]]

\* the record a set is reported with in top_sets, and in prs under its kind
TopSetOf(c) ==
    [exercise_id |-> c.ex_id,
     weight |-> IF ~IsNull(c.set.weight) THEN ToNum(c.set.weight).v ELSE AddedOf(c.set),
     unit |-> IF ~IsNull(c.set.weight) THEN PyOr(c.set.unit, Str("lb"))[2] ELSE AddedUnitOf(c.set),
     reps |-> ToNum(c.set.reps).v, e1rm |-> c.e1, date |-> c.date]
PrOf(c) == TopSetOf(c) @@ [kind |-> "e1rm_pr"]

PrsOf(w, ex) == SelectSeq(w.prs, LAMBDA r : r.exercise_id = ex)

\* the first of a set of positions in input order
FirstOf(H) == CHOOSE h \in H : \A g \in H : h <= g
\* the position of the first set of the same date and exercise
KeyFirst(cs, h) ==
    FirstOf({g \in 1..Len(cs) : cs[g].date = cs[h].date /\ cs[g].ex_id = cs[h].ex_id})
\* the first of a set of positions when the sets of a date and exercise are
\* taken together at the place of the first of them
FirstGrouped(cs, H) ==
    LET key == [h \in H |-> KeyFirst(cs, h)] IN
    CHOOSE h \in H : \A g \in H : key[h] < key[g] \/ (key[h] = key[g] /\ h <= g)

\* the positions of the sets at the largest estimate among the positions M
AtMaximum(cs, M) == {h \in M : \A g \in M : Val(cs[g].e1) <= Val(cs[h].e1)}

StandsForEligible(cs, rec, week, of(_)) ==
    \E h \in 1..Len(cs) :
        /\ cs[h].week = week
        /\ EligibleAsStated(cs[h].set) /\ HasDisplayWeight(cs[h].set)
        /\ of(cs[h]) = rec

\* C15: no bodyweight set is listed in a week's top_sets or prs: every record
\* there is that of a weighted set with a weight, or of a bodyweight_plus set
\* with its added load and the unit of the added load.
C15_OnlyWeightedOrPlusReported ==
    (MetricsReplied /\ res.v.weekly # <<>>) =>
        LET cs == RatedSets
            weekly == res.v.weekly
        IN  \A i \in 1..Len(weekly) :
              /\ \A k \in 1..Len(weekly[i].top_sets) :
                    StandsForEligible(cs, weekly[i].top_sets[k].set, weekly[i].week_start, TopSetOf)
              /\ \A k \in 1..Len(weekly[i].prs) :
                    StandsForEligible(cs, weekly[i].prs[k], weekly[i].week_start, PrOf)

\* C16: at the first use of the registry by two callers at once, a caller
\* that is past _load_registry finds the registry list with complete display
\* and alias indexes, and its lookup is answered as from the complete
\* indexes: a registered name is never resolved from a partly filled index.
C16_NeverPartialIndexes ==
    \A t \in Threads :
        /\ op[t] = "lookup" => cache = load_registry(EmptyCache, fs)
        /\ op[t] = "done" => res[t] = resolve_exercise(EmptyCache, fs, arg[t][1], None).r

(***************************************************************************)
(* Properties of build_canonical_log, checked under SpecIngest             *)
(***************************************************************************)
UnmappedWarnings == SelectSeq(Reply.issues, LAMBDA w : w.type = "unmapped_exercise")
ExerciseLocation(i, j) == "sessions[" \o NumToStr(i - 1) \o "].exercises[" \o NumToStr(j - 1) \o "]"
WarningsAt(i, j) == SelectSeq(UnmappedWarnings, LAMBDA w : w.location = ExerciseLocation(i, j))
\* at most 3 ids, in ascending order without repetition
WellSuggested(ids) ==
    /\ Len(ids) \in 1..3
    /\ \A k \in 1..(Len(ids) - 1) : StrLeq(ids[k], ids[k + 1]) /\ ids[k] # ids[k + 1]

\* C17: the canonical log has exactly one unmapped_exercise warning for each
\* exercise whose id starts with "unmapped:" and none for any other; the
\* warning carries the exercise's raw name as raw_excerpt and at most 3
\* suggested ids in ascending order, summary.unmapped_exercises is the number
\* of these warnings, and an exercise with suggestions keeps its unmapped id.
C17_OneWarningPerUnmapped ==
    (Replied /\ Reply.stage = "canonical") =>
        /\ \A i \in 1..Len(Reply.canonical_log) :
              \A j \in 1..Len(Reply.canonical_log[i].exercises) :
                  LET ex == Reply.canonical_log[i].exercises[j]
                      ws == WarningsAt(i, j)
                  IN  IF StartsWith(ex.exercise_id, "unmapped:")
                      THEN /\ Len(ws) = 1
                           /\ ws[1].severity = "warning"
                           /\ ws[1].raw_excerpt = Some(ex.exercise_raw)
                           /\ ws[1].suggested_exercise_ids # None
                                 => /\ WellSuggested(Val(ws[1].suggested_exercise_ids))
                                    /\ \A k \in 1..Len(Val(ws[1].suggested_exercise_ids)) :
                                          Val(ws[1].suggested_exercise_ids)[k] # ex.exercise_id
                      ELSE ws = <<>>
        /\ Reply.summary.unmapped_exercises = Len(UnmappedWarnings)
        /\ Len(UnmappedWarnings)
             = SumSeq([i \in 1..Len(Reply.canonical_log) |->
                         Len(SelectSeq(Reply.canonical_log[i].exercises,
                                       LAMBDA ex : StartsWith(ex.exercise_id, "unmapped:")))])

\* C17 witness: a log with a mapped exercise and unmapped ones, one of them
\* with 3 suggested ids and one with a single suggestion
C17_ThreeSuggestions ==
    /\ Replied /\ Reply.stage = "canonical"
    /\ Reply.summary.unmapped_exercises = 2
    /\ Reply.summary.exercises_detected = 3
    /\ \E k \in 1..Len(UnmappedWarnings) :
          UnmappedWarnings[k].suggested_exercise_ids
              = Some(<<"barbell_bench_press", "hip_thrust", "incline_barbell_bench_press">>)
    /\ \E k \in 1..Len(UnmappedWarnings) :
          UnmappedWarnings[k].suggested_exercise_ids = Some(<<"pull_up">>)

\* the sessions as the parser of the call produced them, before any hint
ParserSessions ==
    IF arg[1].content_type = "csv" THEN parse_csv(arg[1].content.csv).v
    ELSE IF arg[1].content_type = "json" THEN parse_json(arg[1].content.json).v
    ELSE IF CallOptions.allow_llm /\ ~IsNone(arg[2]) THEN Val(arg[2]).reply
    ELSE << <<None, <<>> >> >>
NoOwnDate(i) == IsNone(ParserSessions[i][1]) \/ ParserSessions[i][1] = Some("")
SessionWarning(i, type) ==
    \E k \in 1..Len(Reply.issues) :
        /\ Reply.issues[k].severity = "warning"
        /\ Reply.issues[k].type = type
        /\ Reply.issues[k].location = "session_" \o NumToStr(i - 1)

\* C18: when a session of the parser has no date of its own and the caller
\* gave a session_date_hint, the canonical session's date is the hint and a
\* missing_date_autofilled warning names that session, whatever the content
\* type; a session has a missing_date warning exactly when its date is null.
C18_HintFilledIsWarned ==
    (Replied /\ Reply.stage = "canonical") =>
        \A i \in 1..Len(Reply.canonical_log) :
            /\ (NoOwnDate(i) /\ ~IsNone(CallOptions.session_date_hint))
                  => /\ Reply.canonical_log[i].date = CallOptions.session_date_hint
                     /\ SessionWarning(i, "missing_date_autofilled")
            /\ SessionWarning(i, "missing_date") <=> IsNone(Reply.canonical_log[i].date)

\* the part of C18 the code keeps: the date is the hint, and the missing_date
\* warning goes with the null date
C18_HintFilled ==
    (Replied /\ Reply.stage = "canonical") =>
        /\ Len(Reply.canonical_log) = Len(ParserSessions)
        /\ \A i \in 1..Len(Reply.canonical_log) :
            /\ (NoOwnDate(i) /\ ~IsNone(CallOptions.session_date_hint))
                  => Reply.canonical_log[i].date = CallOptions.session_date_hint
            /\ SessionWarning(i, "missing_date") <=> IsNone(Reply.canonical_log[i].date)

\* the autofilled warning is issued for the sessions of an external parser only
C18_NoAutofilledOutsideLlm ==
    (Replied /\ Reply.stage = "canonical" /\ HasType(Reply.issues, "missing_date_autofilled"))
        => (arg[1].content_type = "text" /\ CallOptions.allow_llm /\ ~IsNone(arg[2]))

\* the penalty table as the claim states it, in hundredths
TablePenalty(type) ==
    CASE type = "missing_date" -> 15
      [] type = "missing_date_autofilled" -> 15
      [] type = "invalid_exercise_name" -> 20
      [] type = "incomplete_set" -> 10
      [] type = "ambiguous_exercise" -> 15
      [] type = "ambiguous_set_format" -> 15
      [] type = "unmapped_exercise" -> 10
      [] OTHER -> 0
Clamped(c) == IF c < 25 THEN 25 ELSE IF c > 100 THEN 100 ELSE c
TableConfidence(issues) ==
    Clamped(100 - SumSeq([k \in 1..Len(issues) |-> TablePenalty(issues[k].type)]))
\* the issue the strict mode appends once the confidence is computed
Escalated(w) == w.severity = "blocking" /\ w.type = "missing_date" /\ w.location = "session"
ScoredIssues == SelectSeq(Reply.issues, LAMBDA w : ~Escalated(w))
WithSessions == Replied /\ Reply.stage = "canonical" /\ Reply.canonical_log # <<>>

\* C19: the confidence of a result with sessions is 1.0 less the table penalty
\* of every issue of the returned issue list, clamped to [0.25, 1.0]; issues
\* outside the table do not change it and a penalised issue never raises it.
C19_ConfidenceOfReturnedIssues ==
    WithSessions =>
        /\ Reply.summary.confidence = TableConfidence(Reply.issues)
        /\ \A k \in 1..Len(Reply.issues) :
              LET before == compute_confidence(SubSeq(Reply.issues, 1, k - 1))
                  after  == compute_confidence(SubSeq(Reply.issues, 1, k))
              IN  IF TablePenalty(Reply.issues[k].type) = 0 THEN after = before ELSE after <= before

\* C19 as the code has it: the same over the returned issues other than the
\* blocking missing_date issue that the strict mode appends, which is added to
\* the list after the confidence is computed and takes no penalty.
C19_ConfidenceOfScoredIssues ==
    WithSessions =>
        /\ Reply.summary.confidence = TableConfidence(ScoredIssues)
        /\ Reply.summary.confidence \in 25..100
        /\ Len(Reply.issues) - Len(ScoredIssues) \in {0, 1}
        /\ Len(Reply.issues) # Len(ScoredIssues)
              => /\ CallOptions.strictness = "strict"
                 /\ Escalated(Reply.issues[Len(Reply.issues)])
                 /\ WarningOfType(ScoredIssues, "missing_date")
        /\ \A k \in 1..Len(Reply.issues) :
              LET before == compute_confidence(SubSeq(Reply.issues, 1, k - 1))
                  after  == compute_confidence(SubSeq(Reply.issues, 1, k))
              IN  IF TablePenalty(Reply.issues[k].type) = 0 THEN after = before ELSE after <= before

\* C19 witness: a strict reply with sessions whose list ends with the escalated
\* issue, the confidence standing at the penalty of the one warning
C19_EscalatedUnpenalised ==
    /\ WithSessions
    /\ CallOptions.strictness = "strict"
    /\ Escalated(Reply.issues[Len(Reply.issues)])
    /\ Reply.summary.confidence = 85
    /\ TableConfidence(Reply.issues) = 70

\* a reply with sessions whose penalties go past the floor
C19_FloorReached ==
    /\ WithSessions
    /\ Reply.summary.confidence = 25
    /\ SumSeq([k \in 1..Len(ScoredIssues) |-> TablePenalty(ScoredIssues[k].type)]) > 75

(***************************************************************************)
(* Properties of SetRecord and normalize_set, checked under SpecSetRecord  *)
(***************************************************************************)
\* the invariant of a set as the claim states it
ConsistentSet(rec) ==
    /\ ~IsNone(rec.weight) <=> rec.load_type = "weighted"
    /\ ~IsNone(rec.unit) <=> ~IsNone(rec.weight)
    /\ ~IsNone(rec.added_load) <=> rec.load_type = "bodyweight_plus"
\* the load type a raw set names, when it names one of the four
NamedLoadType(raw) ==
    IF IsStr(raw.load_type) /\ Lower(Strip(raw.load_type[2])) \in LoadTypes
    THEN Some(Lower(Strip(raw.load_type[2]))) ELSE None

\* C20: a constructed SetRecord has a weight exactly when it is weighted, a
\* unit exactly when it has a weight and an added load exactly when it is
\* bodyweight_plus, any other combination of fields failing with a validation
\* error; and normalize_set never turns a set into another load type than
\* the one its raw dict names.
C20_ConsistentOrRefused ==
    /\ (op = "SetRecord" /\ res.ok) => ConsistentSet(res.v)
    /\ (op = "SetRecord" /\ ~res.ok) => res.exc = "ValidationError"
    /\ (op = "normalize_set" /\ res.ok)
          => /\ ConsistentSet(res.v)
             /\ ~IsNone(NamedLoadType(arg[1])) => res.v.load_type = Val(NamedLoadType(arg[1]))

\* what the validator does enforce: the weight goes with the weighted type,
\* a weighted set has a unit and a bodyweight_plus set an added load
C20_ValidatorEnforces ==
    (op = "SetRecord") =>
        res.ok <=> /\ ~IsNone(arg.weight) <=> arg.load_type = "weighted"
                   /\ arg.load_type = "weighted" => ~IsNone(arg.unit)
                   /\ arg.load_type = "bodyweight_plus" => ~IsNone(arg.added_load)

\* the records of normalize_set are consistent, and keep the named load type
\* unless it is assisted
C20_NormalizedConsistent ==
    (op = "normalize_set" /\ res.ok) =>
        /\ ConsistentSet(res.v)
        /\ res.v.load_type = (IF NamedLoadType(arg[1]) \in {Some("bodyweight"), Some("bodyweight_plus")}
                              THEN Val(NamedLoadType(arg[1])) ELSE "weighted")

\* an assisted raw set comes out as a weighted record
C20_AssistedCoerced ==
    /\ op = "normalize_set" /\ res.ok
    /\ NamedLoadType(arg[1]) = Some("assisted")
    /\ res.v.load_type = "weighted"

\* the call selects a deterministic parser: CSV, JSON, or the text fallback
Deterministic ==
    /\ Called
    /\ arg[1].content_type \in {"csv", "json", "text"}
    /\ arg[1].content_type = "text" => ~(CallOptions.allow_llm /\ ~IsNone(arg[2]))
\* the parser's outcome, Ok(...) or its exception
ParserOutcome ==
    IF arg[1].content_type = "csv" THEN parse_csv(arg[1].content.csv)
    ELSE IF arg[1].content_type = "json" THEN parse_json(arg[1].content.json)
    ELSE parse_text_fallback(arg[1].content.text)
\* the sets the parser extracted, and the issues it accumulated
SetsOfBlocks(blocks) == SumSeq([j \in 1..Len(blocks) |-> Len(blocks[j][2])])
ExtractedSets ==
    IF arg[1].content_type = "text" THEN SetsOfBlocks(ParserOutcome.v[1])
    ELSE SumSeq([i \in 1..Len(ParserOutcome.v) |-> SetsOfBlocks(ParserOutcome.v[i][2])])
ParserIssues == IF arg[1].content_type = "text" THEN ParserOutcome.v[2] ELSE <<>>
KeepsIssues(issues, kept) ==
    \A k \in 1..Len(kept) : \E n \in 1..Len(issues) : issues[n] = kept[k]
ZeroSetsExtracted == Deterministic /\ ParserOutcome.ok /\ ExtractedSets = 0

\* C21: when the deterministic parser of the call (CSV, JSON or text fallback)
\* extracts no set, the result has a blocking parse_error issue and every issue
\* the parser accumulated, an empty canonical log and status needs_clarification.
C21_ZeroSetsIsParseError ==
    ZeroSetsExtracted =>
        /\ res.ok
        /\ BlockingOfType(Reply.issues, "parse_error")
        /\ KeepsIssues(Reply.issues, ParserIssues)
        /\ Reply.canonical_log = <<>>
        /\ Reply.status = "needs_clarification"

\* C21 as the code has it: the same whenever the parser returns an empty list;
\* a JSON array in which no row names an exercise comes back as one session
\* without exercises, which is canonicalized and carries no parse_error.
EmptySessionParsed ==
    /\ arg[1].content_type = "json"
    /\ Len(ParserOutcome.v) = 1 /\ ParserOutcome.v[1][2] = <<>>
C21_EmptyParseIsParseError ==
    ZeroSetsExtracted =>
        /\ res.ok
        /\ Reply.status = "needs_clarification"
        /\ IF EmptySessionParsed
           THEN /\ ~HasType(Reply.issues, "parse_error")
                /\ Reply.stage = "canonical"
                /\ Len(Reply.canonical_log) = 1 /\ Reply.canonical_log[1].exercises = <<>>
           ELSE /\ BlockingOfType(Reply.issues, "parse_error")
                /\ KeepsIssues(Reply.issues, ParserIssues)
                /\ Reply.canonical_log = <<>>
                /\ Reply.stage = "parse"

\* C21 witness: a text without a set whose fallback parser left issues, all of
\* them in the result next to the parse_error
C21_TextIssuesKept ==
    /\ ZeroSetsExtracted
    /\ arg[1].content_type = "text"
    /\ ParserIssues # <<>>
    /\ res.ok /\ Len(Reply.issues) > Len(ParserIssues)
    /\ BlockingOfType(Reply.issues, "parse_error")

\* the call would hand the text to the external parser
ParserSelected ==
    Called /\ arg[1].content_type = "text" /\ CallOptions.allow_llm /\ ~IsNone(arg[2])
\* a text call that asks for the external parser when none is supplied
ParserMissing ==
    Called /\ arg[1].content_type = "text" /\ CallOptions.allow_llm /\ IsNone(arg[2])
\* the same call with allow_llm = false, its ids drawn from seed
WithoutLlm(seed) ==
    ingest_log_impl(cache, fs,
                    [arg[1] EXCEPT !.options = Some([CallOptions EXCEPT !.allow_llm = FALSE])],
                    None, seed).out
Unavailable(w) == w.type = "llm_unavailable"

\* C22: the external parser is used only for text with allow_llm and a parser
\* supplied; a text call with allow_llm and no parser gives the status, the
\* canonical log, the confidence and the issues of the same call with
\* allow_llm = false, and one more issue, an llm_unavailable warning, with
\* llm_used false.
C22_FallbackAsWithoutLlm ==
    /\ (Replied /\ (Reply.meta.llm_used \/ HasType(Reply.issues, "llm_parse_error")))
          => ParserSelected
    /\ ParserMissing =>
          \E seed \in Seeds :
              LET twin == WithoutLlm(seed) IN
              /\ twin.ok = res.ok
              /\ ~res.ok => twin.exc = res.exc
              /\ res.ok =>
                    /\ Reply.status = twin.v.status
                    /\ Reply.canonical_log = twin.v.canonical_log
                    /\ Reply.summary = twin.v.summary
                    /\ Reply.signature = twin.v.signature
                    /\ SelectSeq(Reply.issues, LAMBDA w : ~Unavailable(w)) = twin.v.issues
                    /\ Len(SelectSeq(Reply.issues, Unavailable)) = 1
                    /\ \A k \in 1..Len(Reply.issues) :
                          Unavailable(Reply.issues[k]) => Reply.issues[k].severity = "warning"
                    /\ ~HasType(twin.v.issues, "llm_unavailable")
                    /\ ~Reply.meta.llm_used

\* C22 witness: a text call with allow_llm and no parser whose fallback found
\* sets, answered ok with the llm_unavailable warning as its only issue
C22_FallbackFoundSets ==
    /\ ParserMissing /\ res.ok
    /\ Reply.status = "ok" /\ Reply.stage = "canonical"
    /\ Reply.summary.sets_detected > 0
    /\ Len(Reply.issues) = 1 /\ Reply.issues[1].type = "llm_unavailable"
    /\ ~Reply.meta.llm_used /\ ~Reply.meta.llm_available

(***************************************************************************)
(* More properties of compute_metrics_impl, checked under SpecMetrics      *)
(***************************************************************************)
\* a set dict that names a load type other than bodyweight, bodyweight_plus and weighted
OtherLoadType(s) ==
    ~IsNull(s.load_type) /\ s.load_type[2] \notin {"bodyweight", "bodyweight_plus", "weighted"}
\* its load in a unit when it is treated like a weighted set
AsWeightedIn(s, unit) ==
    IF OtherLoadType(s)
    THEN (IF ~IsNull(s.weight) /\ s.unit = Str(unit) THEN ToNum(s.weight).v * ToNum(s.reps).v ELSE 0)
    ELSE LoadIn(s, unit)
AsWeightedLb(s) == AsWeightedIn(s, "lb")
AsWeightedKg(s) == AsWeightedIn(s, "kg")
\* what it adds to tonnage_unknown_sets under that treatment
AsWeightedUnknown(s) ==
    IF s.load_type = Str("bodyweight") THEN 0
    ELSE IF s.load_type = Str("bodyweight_plus") THEN (IF HasAdded(s) THEN 0 ELSE 1)
    ELSE IF IsNull(s.weight) THEN 1 ELSE 0
\* the same with the assisted sets always counted as unknown
IsAssisted(s) == s.load_type = Str("assisted")
LegacyLb(s) == IF IsAssisted(s) THEN 0 ELSE AsWeightedIn(s, "lb")
LegacyKg(s) == IF IsAssisted(s) THEN 0 ELSE AsWeightedIn(s, "kg")
LegacyUnknown(s) == IF IsAssisted(s) THEN 1 ELSE AsWeightedUnknown(s)
OrNull(n) == IF n # 0 THEN Some(n) ELSE None

\* C23: a set whose load type is none of bodyweight, bodyweight_plus and
\* weighted (assisted, or an unknown value) counts like a weighted set: with a
\* weight it adds weight x reps to the tonnage of its unit and nothing to
\* tonnage_unknown_sets.
C23_OtherTypesAsWeighted ==
    MetricsReplied =>
        \A i \in 1..Len(Weekly) :
            /\ Weekly[i].tonnage_lb = OrNull(WeekSum(Weekly[i].week_start, AsWeightedLb))
            /\ Weekly[i].tonnage_kg = OrNull(WeekSum(Weekly[i].week_start, AsWeightedKg))
            /\ Weekly[i].tonnage_unknown_sets = WeekSum(Weekly[i].week_start, AsWeightedUnknown)

\* C23 as the code has it: only the values outside the four load types count
\* like weighted sets; an assisted set adds nothing to either tonnage and 1 to
\* tonnage_unknown_sets, with a weight or without.
C23_UnknownTypesAsWeighted ==
    MetricsReplied =>
        \A i \in 1..Len(Weekly) :
            /\ Weekly[i].tonnage_lb = OrNull(WeekSum(Weekly[i].week_start, LegacyLb))
            /\ Weekly[i].tonnage_kg = OrNull(WeekSum(Weekly[i].week_start, LegacyKg))
            /\ Weekly[i].tonnage_unknown_sets = WeekSum(Weekly[i].week_start, LegacyUnknown)

\* a week of sets of an unknown load type: the two with a weight in the kg
\* tonnage, the one without among the unknown sets
C23_LegacyWeek ==
    /\ MetricsReplied
    /\ \E i \in 1..Len(Weekly) :
          /\ Weekly[i].tonnage_kg = Some(2000)
          /\ Weekly[i].tonnage_unknown_sets = 1
          /\ WeekSum(Weekly[i].week_start, LAMBDA s : IF OtherLoadType(s) THEN 1 ELSE 0) = 3

(***************************************************************************)
(* Properties of parse_csv, checked under SpecParseCsv                     *)
(***************************************************************************)
CsvParsed == op = "parse_csv" /\ res.ok
\* the accepted rows of the file in file order: [date, ex, set]
AcceptedRows == csv_row_tuples(csv_cols(arg), arg.rows).v
RowsOfDate(rows, date) == SelectSeq(rows, LAMBDA t : t.date = date)
\* the sets of a session's blocks in order, each under its block's name
BlockRows(blocks) ==
    Concat([b \in 1..Len(blocks) |->
              [k \in 1..Len(blocks[b][2]) |-> <<blocks[b][1], blocks[b][2][k]>>]])

\* C24: the blocks of every session of parse_csv are the maximal contiguous
\* runs of one exercise name among the accepted rows of the session's date (of
\* the whole file without a date column): consecutive blocks differ in name, no
\* block is empty, and the sets of the blocks in order are the accepted rows of
\* that date in file order; every date with an accepted row has one session.
C24_BlocksAreRuns ==
    CsvParsed =>
        LET rows == AcceptedRows IN
        /\ \A i \in 1..Len(res.v) :
              LET blocks == res.v[i][2]
                  mine == RowsOfDate(rows, res.v[i][1])
              IN  /\ \A b \in 1..(Len(blocks) - 1) : blocks[b][1] # blocks[b + 1][1]
                  /\ \A b \in 1..Len(blocks) : blocks[b][2] # <<>>
                  /\ BlockRows(blocks) = [k \in 1..Len(mine) |-> <<mine[k].ex, mine[k].set>>]
        /\ \A i, j \in 1..Len(res.v) : res.v[i][1] = res.v[j][1] => i = j
        /\ \A k \in 1..Len(rows) :
              rows[k].date # None => \E i \in 1..Len(res.v) : res.v[i][1] = rows[k].date

\* C24 witness: a file with a date column whose first date has a name that
\* comes back after another exercise and after a line of the other date
C24_NameComesBack ==
    /\ CsvParsed
    /\ Len(res.v) = 2
    /\ Len(res.v[1][2]) = 3
    /\ res.v[1][2][1][1] = res.v[1][2][3][1]
    /\ Len(AcceptedRows) = 4

(***************************************************************************)
(* Properties of parse_text_fallback, checked under SpecParseText          *)
(***************************************************************************)
TextParsed == op = "parse_text" /\ res.ok /\ arg # <<>>
\* the text before the last line, and what the parser makes of it
LinesBefore == SubSeq(arg, 1, Len(arg) - 1)
LastLine == arg[Len(arg)]
\* the accumulated text: every line after a blank
RECURSIVE Accumulated(_)
Accumulated(lines) == IF lines = <<>> THEN "" ELSE " " \o Head(lines) \o Accumulated(Tail(lines))
\* the "NxM at W" mentions of the last line, left to right
LastMentions == AtMatches(LastLine, 1)
\* the number of sets of w x reps under the name ex in a parser result
SetsUnder(blocks, ex, w, reps) ==
    SumSeq([b \in 1..Len(blocks) |->
              IF blocks[b][1] # ex THEN 0
              ELSE Len(SelectSeq(blocks[b][2], LAMBDA t : t.weight = Num(w) /\ t.reps = Num(reps)))])
NumOfType(issues, type) == Len(SelectSeq(issues, LAMBDA w : w.type = type))
\* the exercise the parser infers for a mention: from the accumulated text up to
\* the first place where the mention's string stands
InferredFor(m) ==
    LET text == Accumulated(arg)
        at == Find(text, m.text)
    IN  infer_exercise_from_context(SubSeq(text, 1, IF at > 0 THEN at ELSE 0))
\* the names, weights and reps that occur in a result
BlockNames(blocks) == {blocks[b][1] : b \in 1..Len(blocks)}
\* the sets the mentions of the last line stand for, count(m) sets each, under
\* the exercise infer(m)
MentionedSets(ms, ex, w, reps, count(_), infer(_)) ==
    SumSeq([k \in 1..Len(ms) |->
              IF infer(ms[k]) = Some(ex) /\ ms[k].weight = w /\ ms[k].reps = reps
              THEN count(ms[k]) ELSE 0])
AddedByLastLine(before, after, ms, count(_), infer(_)) ==
    /\ \A ex \in BlockNames(after[1]) \cup BlockNames(before[1]) :
          \A w \in {2, 100, 225} : \A reps \in {3, 5} :
              SetsUnder(after[1], ex, w, reps)
                  = SetsUnder(before[1], ex, w, reps)
                    + MentionedSets(ms, ex, w, reps, count, infer)
    /\ NumOfType(after[2], "ambiguous_exercise")
          = NumOfType(before[2], "ambiguous_exercise")
            + Len(SelectSeq(ms, LAMBDA m : IsNone(infer(m))))

\* C25: a line with an "NxM at W" mention whose exercise is inferred adds
\* exactly N sets of M reps at W under that exercise and no other set; a
\* mention without an inferred exercise adds no set and one
\* ambiguous_exercise warning.
C25_MentionAddsNSets ==
    (TextParsed /\ LastMentions # <<>>) =>
        AddedByLastLine(parse_text_fallback(LinesBefore).v, res.v, LastMentions,
                        LAMBDA m : m.num_sets, InferredFor)

\* what holds of a line that only holds mentions of at least one set: the line
\* adds the sets of its mentions and no other
C25_PlainMentionAddsNSets ==
    (TextParsed /\ LastMentions # <<>> /\ IsNone(MatchNamed(LastLine))
        /\ \A k \in 1..Len(LastMentions) : LastMentions[k].num_sets >= 1) =>
        AddedByLastLine(parse_text_fallback(LinesBefore).v, res.v, LastMentions,
                        LAMBDA m : m.num_sets, InferredFor)

\* a mention of no sets adds one set
C25_ZeroSetsAddsOne ==
    /\ TextParsed /\ arg = <<"squat", "0x5 at 225">>
    /\ res.v[1] = << <<"Back Squat", <<TextSet(225, 5)>> >> >>
\* a line that names its exercise before the mention is read twice
C25_NamedLineReadTwice ==
    /\ TextParsed /\ arg = <<"Squat 2x3 at 100">>
    /\ res.v[1] = << <<"Back Squat", <<TextSet(100, 3), TextSet(100, 3)>> >>,
                     <<"Squat", <<TextSet(2, 3)>> >> >>

\* the exercise of the alias mentioned most recently before a mention of the
\* last line: inferred from the accumulated text up to the mention itself
MostRecentFor(m) ==
    infer_exercise_from_context(Accumulated(LinesBefore) \o " " \o SubSeq(LastLine, 1, m.start - 1))
PlainMentions ==
    /\ TextParsed /\ LastMentions # <<>> /\ IsNone(MatchNamed(LastLine))
    /\ \A k \in 1..Len(LastMentions) : LastMentions[k].num_sets >= 1
\* an identical mention stands on an earlier line
MentionedEarlier(m) == Find(Accumulated(LinesBefore), m.text) >= 0

\* C26: the sets of an "NxM at W" mention go to the exercise whose alias was
\* mentioned most recently before the mention in the accumulated text, also
\* when an identical mention occurred on an earlier line.
C26_AttributedToMostRecent ==
    PlainMentions =>
        AddedByLastLine(parse_text_fallback(LinesBefore).v, res.v, LastMentions,
                        LAMBDA m : m.num_sets, MostRecentFor)

\* what holds when no identical mention occurred on an earlier line
C26_FirstMentionToMostRecent ==
    (PlainMentions /\ \A k \in 1..Len(LastMentions) : ~MentionedEarlier(LastMentions[k])) =>
        AddedByLastLine(parse_text_fallback(LinesBefore).v, res.v, LastMentions,
                        LAMBDA m : m.num_sets, MostRecentFor)

\* a repeated mention after another exercise goes to the first exercise
C26_RepeatGoesToFirst ==
    /\ TextParsed /\ arg = <<"squat", "3x5 at 225", "bench press", "3x5 at 225">>
    /\ res.v[1] = << <<"Back Squat", RepeatSet(TextSet(225, 5), 6)>> >>
    /\ MostRecentFor(LastMentions[1]) = Some("Barbell Bench Press")

(***************************************************************************)
(* More properties of ingest_log, checked under SpecIngest                 *)
(***************************************************************************)
\* a valid ISO YYYY-MM-DD calendar date
IsCalendarDate(s) ==
    /\ IsIsoShaped(s)
    /\ DigitsValue(SubSeq(s, 1, 4)) >= 1
    /\ DigitsValue(SubSeq(s, 6, 7)) \in 1..12
    /\ DigitsValue(SubSeq(s, 9, 10)) >= 1
    /\ DigitsValue(SubSeq(s, 9, 10))
           <= DaysInMonth(DigitsValue(SubSeq(s, 1, 4)), DigitsValue(SubSeq(s, 6, 7)))

\* C27: every session of a returned canonical log has a date that is null or
\* a valid ISO YYYY-MM-DD calendar date, whatever the input date string and
\* the session_date_hint.
C27_DatesAreCalendarDates ==
    Replied =>
        \A i \in 1..Len(Reply.canonical_log) :
            \/ IsNone(Reply.canonical_log[i].date)
            \/ IsCalendarDate(Val(Reply.canonical_log[i].date))

\* a date of another format is rewritten as a calendar date
C27_OtherFormatRewritten ==
    /\ Replied /\ arg[1].content_type = "csv"
    /\ \E r \in 1..Len(arg[1].content.csv.rows) : arg[1].content.csv.rows[r][1] = "01/15/2024"
    /\ \E i \in 1..Len(Reply.canonical_log) : Reply.canonical_log[i].date = Some("2024-01-15")
\* a date of the ISO shape is stored as written
C27_IsoShapedStoredAsWritten ==
    /\ Replied
    /\ \E i \in 1..Len(Reply.canonical_log) : Reply.canonical_log[i].date = Some("2024-13-45")

\* C28: every set of a returned canonical log has reps >= 0; a row with
\* negative reps is never accepted as a set.
C28_RepsNotNegative ==
    Replied =>
        \A i \in 1..Len(Reply.canonical_log) :
            \A j \in 1..Len(Reply.canonical_log[i].exercises) :
                \A k \in 1..Len(Reply.canonical_log[i].exercises[j].sets) :
                    Reply.canonical_log[i].exercises[j].sets[k].reps >= 0

\* a CSV row with reps -5 is stored as a set of -5 reps, next to one of 0 reps
C28_NegativeRepsStored ==
    /\ Replied /\ Len(Reply.canonical_log) = 1
    /\ Len(Reply.canonical_log[1].exercises) = 1
    /\ Len(Reply.canonical_log[1].exercises[1].sets) = 2
    /\ Reply.canonical_log[1].exercises[1].sets[1].reps = 0 - 5
    /\ Reply.canonical_log[1].exercises[1].sets[2].reps = 0

(***************************************************************************)
(* More properties of e1rm, checked under SpecE1rm                         *)
(***************************************************************************)
\* C29: e1rm with the brzycki formula returns a finite, non-negative value
\* without raising for every weight >= 0 and every integer reps, also for
\* reps >= 37.
C29_BrzyckiNeverFails ==
    (E1rmCalled /\ arg[3] = "brzycki" /\ arg[1] >= 0) => (res.ok /\ res.v >= 0)

\* what holds below 37 reps
C29_BrzyckiBelow37 ==
    (E1rmCalled /\ arg[3] = "brzycki" /\ arg[1] >= 0 /\ arg[2] < 37) => (res.ok /\ res.v >= 0)

\* at 37 reps the division is by zero
C29_DivisionByZero ==
    /\ E1rmCalled /\ arg[3] = "brzycki" /\ arg[1] >= 0 /\ arg[2] = 37
    /\ ~res.ok /\ res.exc = "ZeroDivisionError"
\* at 38 reps the value is negative
C29_NegativeAt38 ==
    /\ E1rmCalled /\ arg[3] = "brzycki" /\ arg[1] = 100000 /\ arg[2] = 38
    /\ res.ok /\ res.v < 0

(***************************************************************************)
(* The flags of a week, checked under SpecMetrics                          *)
(***************************************************************************)
SpikesOf(i) == Len(SelectSeq(Weekly[i].flags, LAMBDA f : f = "volume_spike"))

\* C30: a week's flags hold volume_spike at most once, also when two or
\* three of the hard-set, lb-tonnage and kg-tonnage comparisons trigger for
\* the week.
C30_SpikeAtMostOnce ==
    MetricsReplied => \A i \in 1..Len(Weekly) : SpikesOf(i) <= 1

\* a week whose hard sets and whose tonnage both rose by more than a quarter
\* carries the flag twice
C30_SpikeTwice ==
    MetricsReplied /\ \E i \in 1..Len(Weekly) : SpikesOf(i) = 2
C30_SpikeThrice ==
    MetricsReplied /\ \E i \in 1..Len(Weekly) : SpikesOf(i) = 3

====
